---- MODULE Spec2Model ----
(***************************************************************************)
(* Loading and validation layer of property_rosetta                        *)
(* (src/src/property_rosetta/dictionary.py) and its command-line caller    *)
(* (src/src/property_rosetta/validate.py).                                 *)
(*                                                                         *)
(* A raw record (a YAML mapping) is a TLA+ record whose DOMAIN is the set  *)
(* of keys the mapping carries.  A Python str that the code inspects       *)
(* character by character (an integral_value, a version) is a sequence of  *)
(* one-character strings; an id, a name or a path component is a TLA+      *)
(* string.  An object is a record of its attributes; a weak back-reference *)
(* is the address of the object it refers to.                              *)
(***************************************************************************)
EXTENDS Integers, Sequences, FiniteSets, TLC

VARIABLES op, owner, rec, path, fs, out, probe, dead, exit, batch

vars == <<op, owner, rec, path, fs, out, probe, dead, exit, batch>>

(***************************************************************************)
(* Bounds of the explored inputs.                                          *)
(***************************************************************************)
MaxValues == 2
MaxItems == 2
MaxVersionLen == 5
MaxDestroyed == 2

Range(s) == {s[i] : i \in 1..Len(s)}

SeqsUpTo(S, n) == UNION {[1..k -> S] : k \in 0..n}

(***************************************************************************)
(* YAML scalars as python values: a type tag, an integer payload (the int, *)
(* the bool as 0/1, the float in tenths) and a character payload (a str).  *)
(***************************************************************************)
YNone == [ty |-> "NoneType", n |-> 0, s |-> <<>>]
YInt(i) == [ty |-> "int", n |-> i, s |-> <<>>]
YBool(b) == [ty |-> "bool", n |-> IF b THEN 1 ELSE 0, s |-> <<>>]
YFloat(tenths) == [ty |-> "float", n |-> tenths, s |-> <<>>]
YStr(chars) == [ty |-> "str", n |-> 0, s |-> chars]

Digits == {"0", "1", "2", "3", "4", "5", "6", "7", "8", "9"}

DigitVal(c) ==
    CASE c = "0" -> 0 [] c = "1" -> 1 [] c = "2" -> 2 [] c = "3" -> 3
      [] c = "4" -> 4 [] c = "5" -> 5 [] c = "6" -> 6 [] c = "7" -> 7
      [] c = "8" -> 8 [] c = "9" -> 9

RECURSIVE StripLeft(_)
StripLeft(s) == IF s # <<>> /\ Head(s) = " " THEN StripLeft(Tail(s)) ELSE s

RECURSIVE StripRight(_)
StripRight(s) ==
    IF s # <<>> /\ s[Len(s)] = " " THEN StripRight(SubSeq(s, 1, Len(s) - 1)) ELSE s

Strip(s) == StripRight(StripLeft(s))

(* The digits of a decimal literal: non-empty, single underscores allowed  *)
(* between digits only.                                                    *)
IsDecimalBody(s) ==
    /\ s # <<>>
    /\ \A i \in 1..Len(s) :
          \/ s[i] \in Digits
          \/ /\ s[i] = "_"
             /\ i > 1 /\ i < Len(s)
             /\ s[i - 1] \in Digits /\ s[i + 1] \in Digits

RECURSIVE DecimalValue(_, _)
DecimalValue(s, acc) ==
    IF s = <<>> THEN acc
    ELSE IF Head(s) = "_" THEN DecimalValue(Tail(s), acc)
    ELSE DecimalValue(Tail(s), 10 * acc + DigitVal(Head(s)))

(***************************************************************************)
(* python's int(x) at dictionary.py:118.  The result is                    *)
(* [ok |-> TRUE, n |-> value] or [ok |-> FALSE, exc |-> exception class]. *)
(***************************************************************************)
IntOfStr(chars) ==
    LET t == Strip(chars)
        signed == t # <<>> /\ Head(t) \in {"+", "-"}
        body == IF signed THEN Tail(t) ELSE t
    IN IF IsDecimalBody(body)
       THEN [ok |-> TRUE,
             n |-> IF signed /\ Head(t) = "-"
                   THEN 0 - DecimalValue(body, 0) ELSE DecimalValue(body, 0),
             exc |-> "None"]
       ELSE [ok |-> FALSE, n |-> 0, exc |-> "ValueError"]

PyInt(v) ==
    CASE v.ty = "int" -> [ok |-> TRUE, n |-> v.n, exc |-> "None"]
      [] v.ty = "bool" -> [ok |-> TRUE, n |-> v.n, exc |-> "None"]
      [] v.ty = "float" ->
            [ok |-> TRUE,
             n |-> IF v.n >= 0 THEN v.n \div 10 ELSE 0 - ((0 - v.n) \div 10),
             exc |-> "None"]
      [] v.ty = "str" -> IntOfStr(v.s)
      [] OTHER -> [ok |-> FALSE, n |-> 0, exc |-> "TypeError"]

(***************************************************************************)
(* Outcomes of a call: a returned value or a raised exception.  A message  *)
(* is the sequence of the words of the formatted string.                   *)
(***************************************************************************)
Return(v) == [kind |-> "return", val |-> v]

Raise(cls, message, cause) ==
    [kind |-> "raise", exc |-> cls, message |-> message, cause |-> cause]

DictionaryLoadingError(message, exc) == Raise("DictionaryLoadingError", message, exc)

DictionaryValidationError(message) == Raise("DictionaryValidationError", message, "None")

Returned(o) == o.kind = "return"

Raised(o, cls) == o.kind = "raise" /\ o.exc = cls

(* The classes derived from DictionaryError.                               *)
DictionaryErrors == {"DictionaryLoadingError", "DictionaryValidationError"}

(* Object addresses.  A weak proxy holds the address of its referent;      *)
(* "if x" on a reference tests it against None.                            *)
NoneRef == [cls |-> "NoneType", at |-> <<>>]

Ref(cls, at) == [cls |-> cls, at |-> at]

proxy(target) == IF target # NoneRef THEN target ELSE NoneRef

(* d.get(k, None) followed by "if not x": the key is absent or its value   *)
(* is the empty string.                                                    *)
Falsy(d, k) == k \notin DOMAIN d \/ d[k] = ""

(* An attribute that may be None is a sequence of at most one element:     *)
(* <<>> is None, <<x>> is x.  d.get(k, default) of such an attribute.      *)
GetOpt(d, k, default) == IF k \in DOMAIN d THEN <<d[k]>> ELSE default

GetDeprecated(d) == IF "deprecated" \in DOMAIN d THEN d.deprecated ELSE FALSE

(* A parsed YAML document: None (an empty document), a list of records, a  *)
(* record, or an attribute map (a set of <<key, value>> pairs).            *)
DocNone == [ty |-> "NoneType"]

DocList(items) == [ty |-> "list", items |-> items]

DocRecord(r) == [ty |-> "dict", rec |-> r]

DocMap(pairs) == [ty |-> "dict", map |-> pairs]

GetAttributes(d) == IF "attributes" \in DOMAIN d THEN d.attributes ELSE DocMap({})

(***************************************************************************)
(* DictionaryEnumerationValue.from_dict                                    *)
(***************************************************************************)
DictionaryEnumerationValue_from_dict(self, enumeration, d) ==
    IF Falsy(d, "id")
    THEN DictionaryLoadingError(<<"Missing", "id", "in", "enumeration", "value">>, "None")
    ELSE IF "integral_value" \notin DOMAIN d
    THEN DictionaryLoadingError(
            <<"Invalid", "integral_value", "in", "enumeration", "value", d.id>>,
            "KeyError")
    ELSE IF ~PyInt(d.integral_value).ok
    THEN DictionaryLoadingError(
            <<"Invalid", "integral_value", "in", "enumeration", "value", d.id>>,
            PyInt(d.integral_value).exc)
    ELSE Return([cls |-> "DictionaryEnumerationValue",
                 at |-> self.at,
                 id |-> d.id,
                 enumeration |-> proxy(enumeration),
                 integral_value |-> PyInt(d.integral_value).n,
                 description |-> GetOpt(d, "description", <<"">>),
                 deprecated |-> GetDeprecated(d)])

(* The list comprehension [f(x) for x in xs]: the results in order, or the *)
(* first exception raised.  f maps an index of xs to an outcome.           *)
RECURSIVE Comprehension(_, _, _, _)
Comprehension(f(_), n, i, acc) ==
    IF i > n THEN Return(acc)
    ELSE LET r == f(i)
         IN IF Returned(r) THEN Comprehension(f, n, i + 1, Append(acc, r.val))
            ELSE r

(* {v.id: weakref.proxy(v) for v in xs}: per id, the address of the last   *)
(* object carrying it.                                                     *)
IndexById(xs) ==
    [k \in {xs[i].id : i \in 1..Len(xs)} |->
        LET last == CHOOSE i \in 1..Len(xs) :
                        /\ xs[i].id = k
                        /\ \A j \in 1..Len(xs) : xs[j].id = k => j <= i
        IN Ref(xs[last].cls, xs[last].at)]

(* Variant: a duplicate is noticed only when two or more keys are surplus. *)
HasDuplicates_OffByOne(keys) == Cardinality(Range(keys)) + 1 < Len(keys)

(* len(set([...])) != len(xs)                                              *)
HasDuplicates(keys) == Cardinality(Range(keys)) # Len(keys)

(* Variant: the second uniqueness check reads the value ids again instead  *)
(* of the integral values.                                                 *)
DictionaryEnumeration_from_dict_IdsTwice(self, entity, d) ==
    IF Falsy(d, "id")
    THEN DictionaryLoadingError(<<"Missing", "id", "in", "enumeration">>, "None")
    ELSE IF Falsy(d, "name")
    THEN DictionaryLoadingError(<<"Missing", "name", "in", "enumeration", d.id>>, "None")
    ELSE IF "values" \notin DOMAIN d
    THEN Raise("KeyError", <<"values">>, "None")
    ELSE
      LET value(i) == DictionaryEnumerationValue_from_dict(
                          Ref("DictionaryEnumerationValue", self.at \o <<i>>),
                          self, d.values[i])
          values == Comprehension(value, Len(d.values), 1, <<>>)
      IN IF ~Returned(values) THEN values
         ELSE IF HasDuplicates([i \in 1..Len(values.val) |-> values.val[i].id])
         THEN DictionaryValidationError(
                 <<"Duplicate", "value", "ids", "in", "enumeration", d.id>>)
         ELSE IF HasDuplicates([i \in 1..Len(values.val) |-> values.val[i].id])
         THEN DictionaryValidationError(
                 <<"Duplicate", "integral", "values", "in", "enumeration", d.id>>)
         ELSE Return([cls |-> "DictionaryEnumeration",
                      at |-> self.at,
                      id |-> d.id,
                      entity |-> proxy(entity),
                      name |-> d.name,
                      description |-> GetOpt(d, "description", <<>>),
                      deprecated |-> GetDeprecated(d),
                      values |-> values.val,
                      _values_by_value_id |-> IndexById(values.val)])

(***************************************************************************)
(* DictionaryEnumeration.from_dict                                         *)
(***************************************************************************)
DictionaryEnumeration_from_dict(self, entity, d) ==
    IF Falsy(d, "id")
    THEN DictionaryLoadingError(<<"Missing", "id", "in", "enumeration">>, "None")
    ELSE IF Falsy(d, "name")
    THEN DictionaryLoadingError(<<"Missing", "name", "in", "enumeration", d.id>>, "None")
    ELSE IF "values" \notin DOMAIN d
    THEN Raise("KeyError", <<"values">>, "None")
    ELSE
      LET value(i) == DictionaryEnumerationValue_from_dict(
                          Ref("DictionaryEnumerationValue", self.at \o <<i>>),
                          self, d.values[i])
          values == Comprehension(value, Len(d.values), 1, <<>>)
      IN IF ~Returned(values) THEN values
         ELSE IF HasDuplicates([i \in 1..Len(values.val) |-> values.val[i].id])
         THEN DictionaryValidationError(
                 <<"Duplicate", "value", "ids", "in", "enumeration", d.id>>)
         ELSE IF HasDuplicates(
                    [i \in 1..Len(values.val) |-> values.val[i].integral_value])
         THEN DictionaryValidationError(
                 <<"Duplicate", "integral", "values", "in", "enumeration", d.id>>)
         ELSE Return([cls |-> "DictionaryEnumeration",
                      at |-> self.at,
                      id |-> d.id,
                      entity |-> proxy(entity),
                      name |-> d.name,
                      description |-> GetOpt(d, "description", <<>>),
                      deprecated |-> GetDeprecated(d),
                      values |-> values.val,
                      _values_by_value_id |-> IndexById(values.val)])

(* Variant: the lookup uses .get(id, None).                                *)
value_for_id_Get(e, id) ==
    IF id \in DOMAIN e._values_by_value_id
    THEN Return(e._values_by_value_id[id])
    ELSE Return(NoneRef)

(* DictionaryEnumeration.value_for_id: self._values_by_value_id[id]        *)
value_for_id(e, id) ==
    IF id \in DOMAIN e._values_by_value_id
    THEN Return(e._values_by_value_id[id])
    ELSE Raise("KeyError", <<id>>, "None")

(***************************************************************************)
(* DictionaryDataType.from_dict                                            *)
(***************************************************************************)
DictionaryDataType_from_dict(self, dictionary, d) ==
    IF Falsy(d, "id")
    THEN DictionaryLoadingError(<<"Missing", "id", "in", "data", "type">>, "None")
    ELSE IF Falsy(d, "name")
    THEN DictionaryLoadingError(<<"Missing", "name", "in", "data", "type", d.id>>, "None")
    ELSE Return([cls |-> "DictionaryDataType",
                 at |-> self.at,
                 id |-> d.id,
                 dictionary |-> proxy(dictionary),
                 name |-> d.name,
                 description |-> GetOpt(d, "description", <<>>),
                 semantics |-> IF "semantics" \in DOMAIN d THEN d.semantics ELSE "value",
                 attributes |-> GetAttributes(d),
                 deprecated |-> GetDeprecated(d)])

(* Variant: the type is not required.                                      *)
DictionaryProperty_from_dict_NoTypeCheck(self, entity, d) ==
    IF Falsy(d, "id")
    THEN DictionaryLoadingError(<<"Missing", "id", "in", "property">>, "None")
    ELSE IF Falsy(d, "name")
    THEN DictionaryLoadingError(<<"Missing", "name", "in", "property", d.id>>, "None")
    ELSE Return([cls |-> "DictionaryProperty",
                 at |-> self.at,
                 id |-> d.id,
                 entity |-> proxy(entity),
                 name |-> d.name,
                 type_id |-> IF "type" \in DOMAIN d THEN d.type ELSE "",
                 description |-> GetOpt(d, "description", <<>>),
                 attributes |-> GetAttributes(d),
                 deprecated |-> GetDeprecated(d)])

(***************************************************************************)
(* DictionaryProperty.from_dict                                            *)
(***************************************************************************)
DictionaryProperty_from_dict(self, entity, d) ==
    IF Falsy(d, "id")
    THEN DictionaryLoadingError(<<"Missing", "id", "in", "property">>, "None")
    ELSE IF Falsy(d, "name")
    THEN DictionaryLoadingError(<<"Missing", "name", "in", "property", d.id>>, "None")
    ELSE IF Falsy(d, "type")
    THEN DictionaryLoadingError(<<"Missing", "type", "in", "property", d.id>>, "None")
    ELSE Return([cls |-> "DictionaryProperty",
                 at |-> self.at,
                 id |-> d.id,
                 entity |-> proxy(entity),
                 name |-> d.name,
                 type_id |-> d.type,
                 description |-> GetOpt(d, "description", <<>>),
                 attributes |-> GetAttributes(d),
                 deprecated |-> GetDeprecated(d)])

(***************************************************************************)
(* DictionaryEntity.from_dict: the inline properties are built with the    *)
(* `dictionary` argument in the place of their entity.                     *)
(***************************************************************************)
DictionaryEntity_from_dict(self, dictionary, d) ==
    IF Falsy(d, "id")
    THEN DictionaryLoadingError(<<"Missing", "id", "in", "entity">>, "None")
    ELSE IF Falsy(d, "name")
    THEN DictionaryLoadingError(<<"Missing", "name", "in", "entity", d.id>>, "None")
    ELSE
      LET property(i) == DictionaryProperty_from_dict(
                             Ref("DictionaryProperty", self.at \o <<i>>),
                             dictionary, d.properties[i])
          properties == IF "properties" \in DOMAIN d
                        THEN Comprehension(property, Len(d.properties), 1, <<>>)
                        ELSE Return(<<>>)
      IN IF ~Returned(properties) THEN properties
         ELSE Return([cls |-> "DictionaryEntity",
                      at |-> self.at,
                      dictionary |-> proxy(dictionary),
                      id |-> d.id,
                      name |-> d.name,
                      description |-> GetOpt(d, "description", <<>>),
                      properties |-> properties.val,
                      _properties_by_id |-> IndexById(properties.val),
                      attributes |-> GetAttributes(d),
                      deprecated |-> GetDeprecated(d)])

(* DictionaryEntity.property_by_id: self._properties_by_id.get(id, None)   *)
property_by_id(e, property_id) ==
    IF property_id \in DOMAIN e._properties_by_id
    THEN Return(e._properties_by_id[property_id])
    ELSE Return(NoneRef)

(***************************************************************************)
(* semver.VersionInfo.isvalid on a str: the semantic-versioning grammar    *)
(*   core ["-" prerelease] ["+" build],  core = num "." num "." num        *)
(***************************************************************************)
Letters ==
    {"a", "b", "c", "d", "e", "f", "g", "h", "i", "j", "k", "l", "m",
     "n", "o", "p", "q", "r", "s", "t", "u", "v", "w", "x", "y", "z",
     "A", "B", "C", "D", "E", "F", "G", "H", "I", "J", "K", "L", "M",
     "N", "O", "P", "Q", "R", "S", "T", "U", "V", "W", "X", "Y", "Z"}

IdentChars == Digits \cup Letters \cup {"-"}

(* The position of the first occurrence of c in s, or 0.                   *)
FirstIndex(s, c) ==
    IF \E i \in 1..Len(s) : s[i] = c
    THEN CHOOSE i \in 1..Len(s) : s[i] = c /\ \A j \in 1..(i - 1) : s[j] # c
    ELSE 0

RECURSIVE SplitOn(_, _)
SplitOn(s, c) ==
    LET k == FirstIndex(s, c)
    IN IF k = 0 THEN <<s>>
       ELSE <<SubSeq(s, 1, k - 1)>> \o SplitOn(SubSeq(s, k + 1, Len(s)), c)

IsNumericIdent(s) ==
    /\ s # <<>>
    /\ \A i \in 1..Len(s) : s[i] \in Digits
    /\ (Len(s) > 1 => s[1] # "0")

IsPrereleaseIdent(s) ==
    /\ s # <<>>
    /\ \A i \in 1..Len(s) : s[i] \in IdentChars
    /\ ((\A i \in 1..Len(s) : s[i] \in Digits) => IsNumericIdent(s))

IsBuildIdent(s) == s # <<>> /\ \A i \in 1..Len(s) : s[i] \in IdentChars

isvalid(version) ==
    LET plus == FirstIndex(version, "+")
        front == IF plus = 0 THEN version ELSE SubSeq(version, 1, plus - 1)
        build == IF plus = 0 THEN <<>> ELSE SubSeq(version, plus + 1, Len(version))
        dash == FirstIndex(front, "-")
        core == IF dash = 0 THEN front ELSE SubSeq(front, 1, dash - 1)
        pre == IF dash = 0 THEN <<>> ELSE SubSeq(front, dash + 1, Len(front))
        nums == SplitOn(core, ".")
    IN /\ Len(nums) = 3
       /\ \A i \in 1..3 : IsNumericIdent(nums[i])
       /\ (dash # 0 =>
             \A i \in 1..Len(SplitOn(pre, ".")) : IsPrereleaseIdent(SplitOn(pre, ".")[i]))
       /\ (plus # 0 =>
             \A i \in 1..Len(SplitOn(build, ".")) : IsBuildIdent(SplitOn(build, ".")[i]))

master == <<"m", "a", "s", "t", "e", "r">>

development == <<"d", "e", "v", "e", "l", "o", "p", "m", "e", "n", "t">>

(* Variant: "development" is not among the literal versions.               *)
Dictionary_from_dict_MasterOnly(self, d) ==
    IF Falsy(d, "id")
    THEN DictionaryLoadingError(<<"Missing", "id", "in", "dictionary">>, "None")
    ELSE IF Falsy(d, "name")
    THEN DictionaryLoadingError(<<"Missing", "name", "in", "dictionary", d.id>>, "None")
    ELSE IF "version" \notin DOMAIN d \/ d.version = <<>>
    THEN DictionaryLoadingError(<<"Missing", "version", "in", "dictionary", d.id>>, "None")
    ELSE IF d.version \notin {master} /\ ~isvalid(d.version)
    THEN DictionaryValidationError(
            <<"Version">> \o d.version \o <<"in", "dictionary", d.id, "is", "invalid">>)
    ELSE Return([cls |-> "Dictionary",
                 at |-> self.at,
                 id |-> d.id,
                 name |-> d.name,
                 description |-> GetOpt(d, "description", <<>>),
                 version |-> d.version,
                 deprecated |-> GetDeprecated(d),
                 data_types |-> <<>>,
                 entities |-> <<<<>>>>])

(***************************************************************************)
(* Dictionary.from_dict                                                    *)
(***************************************************************************)
Dictionary_from_dict(self, d) ==
    IF Falsy(d, "id")
    THEN DictionaryLoadingError(<<"Missing", "id", "in", "dictionary">>, "None")
    ELSE IF Falsy(d, "name")
    THEN DictionaryLoadingError(<<"Missing", "name", "in", "dictionary", d.id>>, "None")
    ELSE IF "version" \notin DOMAIN d \/ d.version = <<>>
    THEN DictionaryLoadingError(<<"Missing", "version", "in", "dictionary", d.id>>, "None")
    ELSE IF d.version \notin {master, development} /\ ~isvalid(d.version)
    THEN DictionaryValidationError(
            <<"Version">> \o d.version \o <<"in", "dictionary", d.id, "is", "invalid">>)
    ELSE Return([cls |-> "Dictionary",
                 at |-> self.at,
                 id |-> d.id,
                 name |-> d.name,
                 description |-> GetOpt(d, "description", <<>>),
                 version |-> d.version,
                 deprecated |-> GetDeprecated(d),
                 data_types |-> <<>>,
                 entities |-> <<<<>>>>])

(***************************************************************************)
(* Files.  fs maps a path (a sequence of components) to the state of the   *)
(* file: missing, not parseable as YAML, or holding a document.            *)
(***************************************************************************)
FileMissing == [st |-> "missing"]

FileInvalid == [st |-> "invalid"]

FileOk(doc) == [st |-> "ok", doc |-> doc]

exists(files, p) == p \in DOMAIN files /\ files[p].st # "missing"

(* with open(p) as f: yaml.safe_load(f)                                    *)
safe_load(files, p) ==
    IF ~exists(files, p) THEN Raise("OSError", p, "None")
    ELSE IF files[p].st = "invalid" THEN Raise("YAMLError", p, "None")
    ELSE Return(files[p].doc)

parent(p) == SubSeq(p, 1, Len(p) - 1)

(* except (OSError, yaml.YAMLError) as exc: raise DictionaryLoadingError   *)
LowLevel == {"OSError", "YAMLError"}

(* Variant: the except clause is missing.                                  *)
ExceptLowLevel_NoWrap(o, message) == o

ExceptLowLevel(o, message) ==
    IF o.kind = "raise" /\ o.exc \in LowLevel
    THEN DictionaryLoadingError(message, o.exc)
    ELSE o

(* "for d in doc": the items of a list; None is not iterable.              *)
Iterate(doc, body(_)) ==
    CASE doc.ty = "list" -> body(doc.items)
      [] doc.ty = "NoneType" -> Raise("TypeError", <<"NoneType", "not", "iterable">>, "None")

(***************************************************************************)
(* DictionaryEnumeration.from_yaml_enum_list                               *)
(***************************************************************************)
from_yaml_enum_list(files, entity, p) ==
    LET doc == safe_load(files, p)
        each(items) ==
            LET item(i) == DictionaryEnumeration_from_dict(
                               Ref("DictionaryEnumeration", <<i>>), entity, items[i])
            IN Comprehension(item, Len(items), 1, <<>>)
    IN ExceptLowLevel(
          IF Returned(doc) THEN Iterate(doc.val, each) ELSE doc,
          <<"Error", "reading", "enumeration", "file:">> \o p)

(***************************************************************************)
(* DictionaryProperty.from_yaml_property_list; `at` is the address prefix  *)
(* of the properties created.                                              *)
(***************************************************************************)
from_yaml_property_list(files, at, entity, p) ==
    LET doc == safe_load(files, p)
        each(items) ==
            LET item(i) == DictionaryProperty_from_dict(
                               Ref("DictionaryProperty", at \o <<i>>), entity, items[i])
            IN Comprehension(item, Len(items), 1, <<>>)
    IN ExceptLowLevel(
          IF Returned(doc) THEN Iterate(doc.val, each) ELSE doc,
          <<"Error", "reading", "property", "list", "file:">> \o p)

(***************************************************************************)
(* DictionaryDataType.from_yaml_data_type_list                             *)
(***************************************************************************)
attributes_path(p, id) == parent(p) \o <<"data-type-attributes", id \o ".yaml">>

(* Variant: the override file only fills in the attributes of a data type  *)
(* that gives none inline.                                                 *)
from_yaml_data_type_list_KeepInline(files, dictionary, p) ==
    LET doc == safe_load(files, p)
        each(items) ==
            LET item(i) ==
                  LET v == DictionaryDataType_from_dict(
                               Ref("DictionaryDataType", <<i>>), dictionary, items[i])
                  IN IF ~Returned(v) THEN v
                     ELSE IF exists(files, attributes_path(p, v.val.id))
                     THEN LET attributes == safe_load(files, attributes_path(p, v.val.id))
                          IN IF Returned(attributes)
                             THEN IF "attributes" \in DOMAIN items[i] THEN v
                                  ELSE Return([v.val EXCEPT !.attributes = attributes.val])
                             ELSE attributes
                     ELSE v
            IN Comprehension(item, Len(items), 1, <<>>)
    IN ExceptLowLevel(
          IF Returned(doc) THEN Iterate(doc.val, each) ELSE doc,
          <<"Error", "reading", "enumeration", "file:">> \o p)

from_yaml_data_type_list(files, dictionary, p) ==
    LET doc == safe_load(files, p)
        each(items) ==
            LET item(i) ==
                  LET v == DictionaryDataType_from_dict(
                               Ref("DictionaryDataType", <<i>>), dictionary, items[i])
                  IN IF ~Returned(v) THEN v
                     ELSE IF exists(files, attributes_path(p, v.val.id))
                     THEN LET attributes == safe_load(files, attributes_path(p, v.val.id))
                          IN IF Returned(attributes)
                             THEN Return([v.val EXCEPT !.attributes = attributes.val])
                             ELSE attributes
                     ELSE v
            IN Comprehension(item, Len(items), 1, <<>>)
    IN ExceptLowLevel(
          IF Returned(doc) THEN Iterate(doc.val, each) ELSE doc,
          <<"Error", "reading", "enumeration", "file:">> \o p)

(***************************************************************************)
(* DictionaryEntity.from_yaml_entity_list                                  *)
(***************************************************************************)
properties_path(p, id) == parent(p) \o <<"properties-by-entity", id \o ".yaml">>

(* Variant: an entity whose sibling file is absent keeps its inline        *)
(* properties.                                                             *)
from_yaml_entity_list_Fallback(files, dictionary, p) ==
    LET doc == safe_load(files, p)
        each(items) ==
            LET item(i) ==
                  LET v == DictionaryEntity_from_dict(
                               Ref("DictionaryEntity", <<i>>), dictionary, items[i])
                      properties ==
                          from_yaml_property_list(
                              files, <<i>>, Ref("DictionaryEntity", <<i>>),
                              properties_path(p, v.val.id))
                  IN IF ~Returned(v) THEN v
                     ELSE IF ~exists(files, properties_path(p, v.val.id)) THEN v
                     ELSE IF ~Returned(properties) THEN properties
                     ELSE Return([v.val EXCEPT
                                     !.properties = properties.val,
                                     !._properties_by_id = IndexById(properties.val)])
            IN Comprehension(item, Len(items), 1, <<>>)
    IN ExceptLowLevel(
          IF Returned(doc) THEN Iterate(doc.val, each) ELSE doc,
          <<"Error", "reading", "enumeration", "file:">> \o p)

from_yaml_entity_list(files, dictionary, p) ==
    LET doc == safe_load(files, p)
        each(items) ==
            LET item(i) ==
                  LET v == DictionaryEntity_from_dict(
                               Ref("DictionaryEntity", <<i>>), dictionary, items[i])
                      properties ==
                          from_yaml_property_list(
                              files, <<i>>, Ref("DictionaryEntity", <<i>>),
                              properties_path(p, v.val.id))
                  IN IF ~Returned(v) THEN v
                     ELSE IF ~Returned(properties) THEN properties
                     ELSE Return([v.val EXCEPT
                                     !.properties = properties.val,
                                     !._properties_by_id = IndexById(properties.val)])
            IN Comprehension(item, Len(items), 1, <<>>)
    IN ExceptLowLevel(
          IF Returned(doc) THEN Iterate(doc.val, each) ELSE doc,
          <<"Error", "reading", "enumeration", "file:">> \o p)

(***************************************************************************)
(* Dictionary.from_yaml_dictionary                                         *)
(***************************************************************************)
from_yaml_dictionary(files, p) ==
    LET self == Ref("Dictionary", <<>>)
        doc == safe_load(files, p)
        ret == ExceptLowLevel(
                  IF ~Returned(doc) THEN doc
                  ELSE IF doc.val.ty # "dict"
                  THEN Raise("AttributeError", <<doc.val.ty, "get">>, "None")
                  ELSE Dictionary_from_dict(self, doc.val.rec),
                  <<"Error", "reading", "dictionary", "file:">> \o p)
        data_types == from_yaml_data_type_list(files, self, parent(p) \o <<"data-types.yaml">>)
        entities == from_yaml_entity_list(files, self, parent(p) \o <<"entities.yaml">>)
    IN IF ~Returned(ret) THEN ret
       ELSE IF ~Returned(data_types) THEN data_types
       ELSE IF ~Returned(entities) THEN entities
       ELSE Return([ret.val EXCEPT !.data_types = <<data_types.val>>,
                                   !.entities = <<entities.val>>])

(***************************************************************************)
(* Attribute access and the derived properties.  A heap is the set of the  *)
(* live objects; a reference is resolved by class and address.             *)
(***************************************************************************)
(* The methods and properties each class defines.                          *)
ClassMembers(cls) ==
    CASE cls = "DictionaryEnumerationValue" -> {"dictionary", "entity", "from_dict"}
      [] cls = "DictionaryEnumeration" ->
            {"dictionary", "value_for_id", "from_dict", "from_yaml_enum_list"}
      [] cls = "DictionaryDataType" -> {"from_dict", "from_yaml_data_type_list"}
      [] cls = "DictionaryProperty" ->
            {"dictionary", "dictionary_type", "from_dict", "from_yaml_property_list"}
      [] cls = "DictionaryEntity" ->
            {"property_by_id", "from_dict", "from_yaml_entity_list"}
      [] cls = "Dictionary" -> {"from_dict", "from_yaml_dictionary", "validate"}
      [] OTHER -> {}

hasattr(o, name) == name \in (DOMAIN o \ {"cls", "at"}) \cup ClassMembers(o.cls)

Deref(heap, ref) == CHOOSE o \in heap : o.cls = ref.cls /\ o.at = ref.at

(* A weakref.proxy whose referent is gone raises ReferenceError on every    *)
(* use, its truth test included; heap holds the objects still alive.       *)
Alive(heap, ref) == \E o \in heap : o.cls = ref.cls /\ o.at = ref.at

ReferenceError ==
    Raise("ReferenceError", <<"weakly-referenced", "object", "no", "longer", "exists">>,
          "None")

(* Use of a back-reference x, as in x.id: the referent is reached, or the  *)
(* use fails.                                                              *)
Dereference(heap, ref) ==
    IF ref = NoneRef THEN Raise("AttributeError", <<"NoneType", "id">>, "None")
    ELSE IF ~Alive(heap, ref) THEN ReferenceError
    ELSE Return(ref)

(* DictionaryEntity.dictionary is a data attribute: reading it hands out   *)
(* the proxy it holds, whatever has become of the referent.                *)
(* DictionaryProperty.dictionary:                                          *)
(*   self.entity.dictionary if self.entity else None                       *)
Property_dictionary(heap, p) ==
    IF p.entity = NoneRef THEN Return(NoneRef)
    ELSE IF ~Alive(heap, p.entity) THEN ReferenceError
    ELSE LET entity == Deref(heap, p.entity)
         IN IF "dictionary" \in DOMAIN entity THEN Return(entity.dictionary)
            ELSE Raise("AttributeError", <<entity.cls, "dictionary">>, "None")

(* DictionaryEnumeration.dictionary:                                       *)
(*   self.entity.dictionary if self.entity else None                       *)
Enumeration_dictionary(heap, e) ==
    IF e.entity = NoneRef THEN Return(NoneRef)
    ELSE IF ~Alive(heap, e.entity) THEN ReferenceError
    ELSE LET entity == Deref(heap, e.entity)
         IN IF "dictionary" \in DOMAIN entity THEN Return(entity.dictionary)
            ELSE Raise("AttributeError", <<entity.cls, "dictionary">>, "None")

(* DictionaryEnumerationValue.dictionary:                                  *)
(*   self.enumeration.dictionary if self.enumeration else None             *)
Value_dictionary(heap, v) ==
    IF v.enumeration = NoneRef THEN Return(NoneRef)
    ELSE IF ~Alive(heap, v.enumeration) THEN ReferenceError
    ELSE Enumeration_dictionary(heap, Deref(heap, v.enumeration))

(* DictionaryEnumerationValue.entity:                                      *)
(*   self.enumeration.entity if self.enumeration else None                 *)
Value_entity(heap, v) ==
    IF v.enumeration = NoneRef THEN Return(NoneRef)
    ELSE IF ~Alive(heap, v.enumeration) THEN ReferenceError
    ELSE Return(Deref(heap, v.enumeration).entity)

(* DictionaryProperty.dictionary_type:                                     *)
(*   self.dictionary.type_by_id(self.type_id) if self.dictionary else None *)
(* The attribute lookup of type_by_id precedes the call.  No class of the  *)
(* source defines type_by_id, so the last branch, which stands for the     *)
(* call, is never taken.                                                   *)
dictionary_type(heap, p) ==
    LET dictionary == Property_dictionary(heap, p)
    IN IF ~Returned(dictionary) THEN dictionary
       ELSE IF dictionary.val = NoneRef THEN Return(NoneRef)
       ELSE IF ~Alive(heap, dictionary.val) THEN ReferenceError
       ELSE IF ~hasattr(Deref(heap, dictionary.val), "type_by_id")
       THEN Raise("AttributeError", <<dictionary.val.cls, "type_by_id">>, "None")
       ELSE Return(dictionary.val)

(***************************************************************************)
(* The validation script.                                                  *)
(***************************************************************************)
(* Dictionary.validate: return []                                          *)
validate(dictionary) == <<>>

(* parse_args: exactly one positional argument, else argparse exits with   *)
(* status 2.                                                               *)
parse_args(args) ==
    IF Len(args) = 1 THEN Return(args[1])
    ELSE Raise("SystemExit", <<"2">>, "None")

(* main from the try statement on, given how the load ended: the status   *)
(* it returns, or the exception that leaves it.                            *)
StatusAfter(dictionary) ==
    IF dictionary.kind = "raise" /\ dictionary.exc \in DictionaryErrors
    THEN Return(1)
    ELSE IF ~Returned(dictionary) THEN dictionary
    ELSE IF validate(dictionary.val) = <<>> THEN Return(0)
    ELSE Return(1)

main(files, args) ==
    IF ~Returned(parse_args(args)) THEN parse_args(args)
    ELSE StatusAfter(from_yaml_dictionary(files, parse_args(args).val))

(* A call whose value is not used: the value is dropped, an exception      *)
(* still propagates.                                                       *)
Discard(status) == IF Returned(status) THEN Return(NoneRef) ELSE status

(* run: main(sys.argv[1:]); run returns None.                              *)
run(files, args) == Discard(main(files, args))

(* The exit status of a process whose entry point is run: 0 when run       *)
(* returns, the code of a SystemExit, 1 for any other uncaught exception.  *)
ExitStatus(o) ==
    IF Returned(o) THEN 0
    ELSE IF o.exc = "SystemExit" THEN 2
    ELSE 1

(***************************************************************************)
(* The inputs explored.                                                    *)
(***************************************************************************)
(* Records with every combination of the keys present; "" is an empty id.  *)
RawIntegrals ==
    {YInt(1), YInt(2), YInt(-1), YBool(TRUE), YFloat(15), YNone,
     YStr(<<"1">>), YStr(<<"0", "1">>), YStr(<<" ", "2">>), YStr(<<"-", "1">>),
     YStr(<<"1", "_", "0">>), YStr(<<"x">>), YStr(<<>>)}

ValueIds == {"", "a", "b"}

EnumerationValueRecords ==
    {[id |-> i, integral_value |-> v] : i \in ValueIds, v \in RawIntegrals}
      \cup {[id |-> i] : i \in ValueIds}
      \cup {[integral_value |-> v] : v \in RawIntegrals}
      \cup {[description |-> "bar"]}
      \cup {[id |-> "a", integral_value |-> YInt(1), description |-> "bar",
             deprecated |-> TRUE]}

(* The value records used inside enumeration records.                      *)
ListedValueRecords ==
    {[id |-> i, integral_value |-> v] :
        i \in {"a", "b"}, v \in {YInt(1), YInt(2), YStr(<<"1">>), YStr(<<"x">>)}}
      \cup {[id |-> "a"], [integral_value |-> YInt(1)]}

EnumerationRecords ==
    {[id |-> "anenum", name |-> "anenum of sorts", values |-> vs] :
        vs \in SeqsUpTo(ListedValueRecords, MaxValues)}
      \cup {[id |-> i, values |-> vs] :
              i \in {"", "anenum"}, vs \in SeqsUpTo(ListedValueRecords, 1)}
      \cup {[name |-> "anenum of sorts", values |-> vs] :
              vs \in SeqsUpTo(ListedValueRecords, 1)}
      \cup {[id |-> "anenum", name |-> "", values |-> vs] :
              vs \in SeqsUpTo(ListedValueRecords, 1)}
      \cup {[id |-> "anenum", name |-> "anenum of sorts"],
            [id |-> "anenum"], [name |-> "anenum of sorts"], [description |-> "foo"],
            [id |-> "anenum", name |-> "anenum of sorts", description |-> "foo",
             deprecated |-> TRUE, values |-> <<[id |-> "a", integral_value |-> YInt(1)]>>]}

SomeAttributes == DocMap({<<"custom_attribute", "foo">>})

DataTypeRecords ==
    {[id |-> i, name |-> n] : i \in {"", "int32", "bool"}, n \in {"", "a type"}}
      \cup {[id |-> i] : i \in {"", "bool"}}
      \cup {[name |-> n] : n \in {"", "a type"}}
      \cup {[description |-> "foo"]}
      \cup {[id |-> "bool", name |-> "a type", attributes |-> SomeAttributes],
            [id |-> "bool", name |-> "a type", semantics |-> "reference",
             description |-> "foo", deprecated |-> TRUE]}

PropertyRecords ==
    {[id |-> i, name |-> n, type |-> t] :
        i \in {"", "ok.index", "ok.name"}, n \in {"", "a property"},
        t \in {"", "int32", "nosuchtype"}}
      \cup {[id |-> i, name |-> n] : i \in {"", "ok.index"}, n \in {"", "a property"}}
      \cup {[id |-> i, type |-> t] : i \in {"", "ok.index"}, t \in {"", "int32"}}
      \cup {[name |-> n, type |-> t] : n \in {"", "a property"}, t \in {"", "int32"}}
      \cup {[id |-> "ok.index"], [name |-> "a property"], [type |-> "int32"],
            [description |-> "foo"]}
      \cup {[id |-> "ok.index", name |-> "a property", type |-> "int32",
             description |-> "foo", attributes |-> SomeAttributes, deprecated |-> TRUE]}

(* The property records used inside entity records and property files.     *)
ListedPropertyRecords ==
    {[id |-> "ok.index", name |-> "index", type |-> "int32"],
     [id |-> "ok.index", name |-> "again", type |-> "bool"],
     [id |-> "ok.name", name |-> "name", type |-> "nosuchtype"],
     [id |-> "ok.name", name |-> "name"],
     [name |-> "anonymous", type |-> "int32"]}

EntityRecords ==
    {[id |-> i, name |-> n] : i \in {"", "ok", "other"}, n \in {"", "An entity"}}
      \cup {[id |-> i] : i \in {"", "ok"}}
      \cup {[name |-> n] : n \in {"", "An entity"}}
      \cup {[description |-> "foo"]}
      \cup {[id |-> "ok", name |-> "An entity", properties |-> ps] :
              ps \in SeqsUpTo(ListedPropertyRecords, MaxItems)}
      \cup {[name |-> "An entity", properties |-> ps] :
              ps \in SeqsUpTo(ListedPropertyRecords, 1)}
      \cup {[id |-> "ok", name |-> "An entity", description |-> "foo",
             attributes |-> SomeAttributes, deprecated |-> TRUE]}

VersionAlphabet == {"0", "1", ".", "-", "+", "a"}

Versions ==
    SeqsUpTo(VersionAlphabet, MaxVersionLen)
      \cup {master, development,
            <<"n", "o", "t", "-", "a", "-", "v", "e", "r", "s", "i", "o", "n">>,
            <<"M", "a", "s", "t", "e", "r">>,
            <<"1", ".", "0", ".", "0", "-", "a", ".", "1", "+", "b", ".", "0", "1">>,
            <<"1", ".", "0", ".", "0", "-", "0", "1">>,
            <<"1", ".", "0", ".", "0", "-", "a", "+", "b", "+", "c">>,
            <<"1", ".", "1", "0", ".", "0", "-", "-">>,
            <<"0", "1", ".", "0", ".", "0">>}

DictionaryRecords ==
    {[id |-> "ok.dictionary", name |-> "A proper Dictionary", version |-> v] :
        v \in Versions}
      \cup {[id |-> i, name |-> n, version |-> v] :
              i \in {"", "ok.dictionary"}, n \in {"", "A proper Dictionary"},
              v \in {<<>>, master, <<"0", ".", "0", ".", "1">>, <<"1", ".", "0">>}}
      \cup {[id |-> i, name |-> n] :
              i \in {"", "ok.dictionary"}, n \in {"", "A proper Dictionary"}}
      \cup {[id |-> i, version |-> v] :
              i \in {"", "ok.dictionary"}, v \in {<<>>, master, <<"1", ".", "0">>}}
      \cup {[name |-> n, version |-> v] :
              n \in {"", "A proper Dictionary"}, v \in {<<>>, master, <<"1", ".", "0">>}}
      \cup {[id |-> "ok.dictionary"], [name |-> "A proper Dictionary"],
            [version |-> master], [description |-> "Happy path test"]}
      \cup {[id |-> "ok.dictionary", name |-> "A proper Dictionary",
             version |-> development, description |-> "Happy path test",
             deprecated |-> TRUE]}

(* Files.                                                                  *)
FileStates(lists) ==
    {FileMissing, FileInvalid, FileOk(DocNone)} \cup {FileOk(DocList(l)) : l \in lists}

ListedEnumerationRecords ==
    {[id |-> "anenum", name |-> "anenum of sorts",
      values |-> <<[id |-> "a", integral_value |-> YInt(1)]>>],
     [id |-> "other", name |-> "another",
      values |-> <<[id |-> "a", integral_value |-> YInt(1)],
                   [id |-> "b", integral_value |-> YStr(<<"2">>)]>>],
     [name |-> "enum_noid", values |-> <<>>],
     [id |-> "enum_noname", values |-> <<>>],
     [id |-> "enum_novalues", name |-> "no values"],
     [id |-> "enum_value_noid", name |-> "a value without id",
      values |-> <<[integral_value |-> YInt(1)]>>],
     [id |-> "enum_duplicate_ids", name |-> "duplicate ids",
      values |-> <<[id |-> "a", integral_value |-> YInt(1)],
                   [id |-> "a", integral_value |-> YInt(2)]>>],
     [id |-> "enum_duplicate_integrals", name |-> "duplicate integrals",
      values |-> <<[id |-> "a", integral_value |-> YInt(1)],
                   [id |-> "b", integral_value |-> YStr(<<"1">>)]>>]}

ListedDataTypeRecords ==
    {[id |-> "int32", name |-> "32 bit integer"],
     [id |-> "bool", name |-> "Boolean", attributes |-> SomeAttributes],
     [id |-> "bool", name |-> "Boolean"],
     [id |-> "data_types_noname"],
     [name |-> "data_types_noid"]}

ListedEntityRecords ==
    {[id |-> "ok", name |-> "An Ok entity"],
     [id |-> "ok", name |-> "An Ok entity",
      properties |-> <<[id |-> "inline", name |-> "inline", type |-> "int32"]>>],
     [id |-> "ok", name |-> "An Ok entity",
      properties |-> <<[name |-> "inline", type |-> "int32"]>>],
     [id |-> "other", name |-> "Another entity"],
     [id |-> "entities_no_name"],
     [name |-> "entities_no_id"]}

OverrideAttributes == DocMap({<<"boolean_attribute", "yes">>})

EnumPath == <<"data", "enums.yaml">>

PropertiesPath == <<"data", "properties.yaml">>

DataTypesPath == <<"data", "data-types.yaml">>

EntitiesPath == <<"data", "entities.yaml">>

DictionaryPath == <<"data", "dictionary.yaml">>

EnumFileSystems ==
    {EnumPath :> st : st \in FileStates(SeqsUpTo(ListedEnumerationRecords, MaxItems))}

PropertyFileSystems ==
    {PropertiesPath :> st : st \in FileStates(SeqsUpTo(ListedPropertyRecords, MaxItems))}

DataTypeFileSystems ==
    {(DataTypesPath :> st)
        @@ (attributes_path(DataTypesPath, "bool") :> b)
        @@ (attributes_path(DataTypesPath, "int32") :> i) :
       st \in FileStates(SeqsUpTo(ListedDataTypeRecords, MaxItems)),
       b \in {FileMissing, FileInvalid, FileOk(DocNone), FileOk(OverrideAttributes)},
       i \in {FileMissing, FileOk(DocMap({}))}}

(* The sibling file of an entity lists no, one or two properties; longer   *)
(* property lists are those of PropertyFileSystems.                        *)
SiblingPropertyLists ==
    {<<>>} \cup {<<a>> : a \in ListedPropertyRecords}
           \cup {<<a, b>> : a \in ListedPropertyRecords, b \in ListedPropertyRecords}

EntityFileSystems ==
    {(EntitiesPath :> st)
        @@ (properties_path(EntitiesPath, "ok") :> o)
        @@ (properties_path(EntitiesPath, "other") :> x) :
       st \in FileStates(SeqsUpTo(ListedEntityRecords, MaxItems)),
       o \in FileStates(SiblingPropertyLists),
       x \in {FileMissing, FileOk(DocList(<<[id |-> "other.index", name |-> "index",
                                             type |-> "int32"]>>))}}

(* A dictionary directory: the root file and its sibling files.            *)
RootFileStates ==
    {FileMissing, FileInvalid, FileOk(DocNone)}
      \cup {FileOk(DocRecord(r)) :
              r \in {[id |-> "ok.dictionary", name |-> "A proper Dictionary",
                      version |-> <<"0", ".", "0", ".", "1">>],
                     [id |-> "ok.dictionary", name |-> "A proper Dictionary",
                      version |-> master],
                     [id |-> "ok.dictionary", name |-> "A proper Dictionary",
                      version |-> <<"b", "a", "d">>],
                     [id |-> "ok.dictionary", name |-> "A proper Dictionary"],
                     [id |-> "ok.dictionary", version |-> master],
                     [name |-> "A proper Dictionary", version |-> master]}}

DictionaryFileSystems ==
    {(DictionaryPath :> root)
        @@ (DataTypesPath :> types)
        @@ (attributes_path(DataTypesPath, "bool") :> b)
        @@ (EntitiesPath :> entities)
        @@ (properties_path(EntitiesPath, "ok") :> o)
        @@ (properties_path(EntitiesPath, "other") :> x) :
       root \in RootFileStates,
       types \in FileStates(
                   {<<>>, <<[id |-> "int32", name |-> "32 bit integer"]>>,
                    <<[id |-> "int32", name |-> "32 bit integer"],
                      [id |-> "bool", name |-> "Boolean", attributes |-> SomeAttributes]>>,
                    <<[id |-> "data_types_noname"]>>}),
       b \in {FileMissing, FileInvalid, FileOk(OverrideAttributes)},
       entities \in FileStates(
                   {<<>>, <<[id |-> "ok", name |-> "An Ok entity"]>>,
                    <<[id |-> "ok", name |-> "An Ok entity",
                       properties |-> <<[name |-> "inline", type |-> "int32"]>>]>>,
                    <<[id |-> "ok", name |-> "An Ok entity",
                       properties |-> <<[id |-> "inline", name |-> "inline",
                                         type |-> "int32"]>>],
                      [id |-> "other", name |-> "Another entity"]>>,
                    <<[name |-> "entities_no_id"]>>}),
       o \in FileStates(
                   {<<>>, <<[id |-> "ok.index", name |-> "index", type |-> "int32"],
                            [id |-> "ok.name", name |-> "name", type |-> "nosuchtype"]>>,
                    <<[id |-> "ok.index", name |-> "index"]>>}),
       x \in {FileMissing, FileOk(DocList(<<[id |-> "other.index", name |-> "index",
                                             type |-> "bool"]>>))}}

(***************************************************************************)
(* The parents a factory may be given: None, or a live object.             *)
(***************************************************************************)
RefOf(o) == Ref(o.cls, o.at)

NoOwner == NoneRef

OwnerDictionary ==
    Dictionary_from_dict(
        Ref("Dictionary", <<>>),
        [id |-> "owner", name |-> "Owner", version |-> master]).val

(* An entity that belongs to no dictionary.                                *)
OwnerEntity ==
    DictionaryEntity_from_dict(
        Ref("DictionaryEntity", <<0>>), NoneRef, [id |-> "owner", name |-> "Owner"]).val

OwnerEnumeration ==
    DictionaryEnumeration_from_dict(
        Ref("DictionaryEnumeration", <<0>>), NoneRef,
        [id |-> "owner", name |-> "Owner", values |-> <<>>]).val

NoRecord == [none |-> TRUE]

NoFiles == <<>>

NoPath == <<>>

Pending == [kind |-> "pending"]

NoProbe == [q |-> "none"]

(* The exit status of the process: <<>> while it runs, <<n>> once it has   *)
(* exited with status n.                                                   *)
NoExit == <<>>

(* The loop of a batch loader: the records of the file, the index k of the *)
(* record the loop is at, the object v built from it and awaiting its      *)
(* sibling file, the list ret built so far, and the log of what was done.  *)
NoBatch == [stage |-> "idle"]

Loop(stage, items, k, v, ret, log) ==
    [stage |-> stage, items |-> items, k |-> k, v |-> v, ret |-> ret, log |-> log]

ProbeIds == {"a", "b", "ok.index", "ok.name", "inline", "unknown"}

(***************************************************************************)
(* The objects a call returned, with the parent it was given.              *)
(***************************************************************************)
Children(o) ==
    CASE o.cls = "DictionaryEnumeration" -> Range(o.values)
      [] o.cls = "DictionaryEntity" -> Range(o.properties)
      [] o.cls = "Dictionary" ->
            LET types == IF o.data_types = <<>> THEN {} ELSE Range(o.data_types[1])
                entities == Range(o.entities[1])
            IN types \cup entities \cup UNION {Range(e.properties) : e \in entities}
      [] OTHER -> {}

Returns(o, parent_) ==
    LET top == IF ~Returned(o) THEN {}
               ELSE IF op \in {"DictionaryEnumeration.from_yaml_enum_list",
                               "DictionaryDataType.from_yaml_data_type_list",
                               "DictionaryProperty.from_yaml_property_list",
                               "DictionaryEntity.from_yaml_entity_list"}
               THEN Range(o.val)
               ELSE {o.val}
    IN top \cup UNION {Children(x) : x \in top}
           \cup (IF parent_ = NoOwner THEN {} ELSE {parent_})

Heap == Returns(out, owner)

(* The objects an object holds in its own lists: these are ordinary        *)
(* references and keep the objects alive.                                  *)
Owned(o) ==
    CASE o.cls = "DictionaryEnumeration" -> Range(o.values)
      [] o.cls = "DictionaryEntity" -> Range(o.properties)
      [] o.cls = "Dictionary" ->
            (IF o.data_types = <<>> THEN {} ELSE Range(o.data_types[1]))
               \cup Range(o.entities[1])
      [] OTHER -> {}

LiveHeap == {o \in Heap : RefOf(o) \notin dead}

(* The back-reference each class keeps: weakref.proxy(parent) or None.     *)
BackReference(c) ==
    CASE c.cls = "DictionaryEnumerationValue" -> c.enumeration
      [] c.cls = "DictionaryEnumeration" -> c.entity
      [] c.cls = "DictionaryProperty" -> c.entity
      [] c.cls = "DictionaryEntity" -> c.dictionary
      [] c.cls = "DictionaryDataType" -> c.dictionary

ParentClasses == {"Dictionary", "DictionaryEntity", "DictionaryEnumeration"}

ChildClasses ==
    {"DictionaryEnumerationValue", "DictionaryEnumeration", "DictionaryProperty",
     "DictionaryEntity", "DictionaryDataType"}

(***************************************************************************)
(* A run calls one entry point on one input and may then query what it     *)
(* returned.                                                               *)
(***************************************************************************)
Call(name, parent_, d, p, files) ==
    /\ op = name
    /\ owner = parent_
    /\ rec = d
    /\ path = p
    /\ fs = files
    /\ out = Pending
    /\ probe = NoProbe
    /\ dead = {}
    /\ exit = NoExit
    /\ batch = NoBatch

Init ==
    \/ \E d \in EnumerationValueRecords, o \in {NoOwner, OwnerEnumeration} :
          Call("DictionaryEnumerationValue.from_dict", o, d, NoPath, NoFiles)
    \/ \E d \in EnumerationRecords, o \in {NoOwner, OwnerEntity} :
          Call("DictionaryEnumeration.from_dict", o, d, NoPath, NoFiles)
    \/ \E d \in DataTypeRecords, o \in {NoOwner, OwnerDictionary} :
          Call("DictionaryDataType.from_dict", o, d, NoPath, NoFiles)
    \/ \E d \in PropertyRecords, o \in {NoOwner, OwnerEntity} :
          Call("DictionaryProperty.from_dict", o, d, NoPath, NoFiles)
    \/ \E d \in EntityRecords, o \in {NoOwner, OwnerDictionary} :
          Call("DictionaryEntity.from_dict", o, d, NoPath, NoFiles)
    \/ \E d \in DictionaryRecords :
          Call("Dictionary.from_dict", NoOwner, d, NoPath, NoFiles)
    \/ \E files \in EnumFileSystems, o \in {NoOwner, OwnerEntity} :
          Call("DictionaryEnumeration.from_yaml_enum_list", o, NoRecord, EnumPath, files)
    \/ \E files \in DataTypeFileSystems, o \in {NoOwner, OwnerDictionary} :
          Call("DictionaryDataType.from_yaml_data_type_list", o, NoRecord,
               DataTypesPath, files)
    \/ \E files \in PropertyFileSystems, o \in {NoOwner, OwnerEntity} :
          Call("DictionaryProperty.from_yaml_property_list", o, NoRecord,
               PropertiesPath, files)
    \/ \E files \in EntityFileSystems, o \in {NoOwner, OwnerDictionary} :
          Call("DictionaryEntity.from_yaml_entity_list", o, NoRecord, EntitiesPath, files)
    \/ \E files \in DictionaryFileSystems :
          Call("Dictionary.from_yaml_dictionary", NoOwner, NoRecord, DictionaryPath, files)
    \/ \E files \in DictionaryFileSystems :
          Call("validate.run", NoOwner, NoRecord, DictionaryPath, files)
    \/ Call("validate.run", NoOwner, NoRecord, NoPath, NoFiles)

Finish(name, result) ==
    /\ op = name
    /\ out = Pending
    /\ batch = NoBatch
    /\ out' = result
    /\ UNCHANGED <<op, owner, rec, path, fs, probe, dead, exit, batch>>

EnumerationValueFromDict ==
    Finish("DictionaryEnumerationValue.from_dict",
           DictionaryEnumerationValue_from_dict(
               Ref("DictionaryEnumerationValue", <<1>>), RefOf(owner), rec))

EnumerationFromDict ==
    Finish("DictionaryEnumeration.from_dict",
           DictionaryEnumeration_from_dict(
               Ref("DictionaryEnumeration", <<1>>), RefOf(owner), rec))

DataTypeFromDict ==
    Finish("DictionaryDataType.from_dict",
           DictionaryDataType_from_dict(Ref("DictionaryDataType", <<1>>), RefOf(owner), rec))

PropertyFromDict ==
    Finish("DictionaryProperty.from_dict",
           DictionaryProperty_from_dict(Ref("DictionaryProperty", <<1>>), RefOf(owner), rec))

EntityFromDict ==
    Finish("DictionaryEntity.from_dict",
           DictionaryEntity_from_dict(Ref("DictionaryEntity", <<1>>), RefOf(owner), rec))

DictionaryFromDict ==
    Finish("Dictionary.from_dict", Dictionary_from_dict(Ref("Dictionary", <<>>), rec))

EnumListFromYaml ==
    Finish("DictionaryEnumeration.from_yaml_enum_list",
           from_yaml_enum_list(fs, RefOf(owner), path))

DataTypeListFromYaml ==
    Finish("DictionaryDataType.from_yaml_data_type_list",
           from_yaml_data_type_list(fs, RefOf(owner), path))

PropertyListFromYaml ==
    Finish("DictionaryProperty.from_yaml_property_list",
           from_yaml_property_list(fs, <<>>, RefOf(owner), path))

EntityListFromYaml ==
    Finish("DictionaryEntity.from_yaml_entity_list",
           from_yaml_entity_list(fs, RefOf(owner), path))

DictionaryFromYaml ==
    Finish("Dictionary.from_yaml_dictionary", from_yaml_dictionary(fs, path))

(***************************************************************************)
(* The batch loaders, step by step: open and parse the file, then for each *)
(* record in turn build the object, read its sibling file where the loader *)
(* has one, and append it; return the list after the last record.          *)
(***************************************************************************)
BatchLoaders ==
    {"DictionaryEnumeration.from_yaml_enum_list",
     "DictionaryDataType.from_yaml_data_type_list",
     "DictionaryProperty.from_yaml_property_list",
     "DictionaryEntity.from_yaml_entity_list"}

(* The message of the except clause of the loader.                         *)
LoaderMessage ==
    IF op = "DictionaryProperty.from_yaml_property_list"
    THEN <<"Error", "reading", "property", "list", "file:">> \o path
    ELSE <<"Error", "reading", "enumeration", "file:">> \o path

(* Variant: the loop runs over the records from the last to the first.     *)
ItemAt_Reversed(items, k) == items[Len(items) + 1 - k]

(* for d in yamllist: the k-th record the loop takes                       *)
ItemAt(items, k) == items[k]

(* X.from_dict(parent, d) for the k-th record                              *)
ItemFactory(items, k) ==
    CASE op = "DictionaryEnumeration.from_yaml_enum_list" ->
            DictionaryEnumeration_from_dict(
                Ref("DictionaryEnumeration", <<k>>), RefOf(owner), ItemAt(items, k))
      [] op = "DictionaryDataType.from_yaml_data_type_list" ->
            DictionaryDataType_from_dict(
                Ref("DictionaryDataType", <<k>>), RefOf(owner), ItemAt(items, k))
      [] op = "DictionaryProperty.from_yaml_property_list" ->
            DictionaryProperty_from_dict(
                Ref("DictionaryProperty", <<k>>), RefOf(owner), ItemAt(items, k))
      [] op = "DictionaryEntity.from_yaml_entity_list" ->
            DictionaryEntity_from_dict(
                Ref("DictionaryEntity", <<k>>), RefOf(owner), ItemAt(items, k))

HasSibling ==
    op \in {"DictionaryDataType.from_yaml_data_type_list",
            "DictionaryEntity.from_yaml_entity_list"}

(* Whether the loader opens the sibling file of object v.                  *)
ReadsSibling(v) ==
    \/ op = "DictionaryEntity.from_yaml_entity_list"
    \/ /\ op = "DictionaryDataType.from_yaml_data_type_list"
       /\ exists(fs, attributes_path(path, v.id))

(* The object v after its sibling file has been applied.                   *)
WithSibling(v, k) ==
    IF op = "DictionaryEntity.from_yaml_entity_list"
    THEN LET properties == from_yaml_property_list(
                               fs, <<k>>, Ref("DictionaryEntity", <<k>>),
                               properties_path(path, v.id))
         IN IF ~Returned(properties) THEN properties
            ELSE Return([v EXCEPT !.properties = properties.val,
                                  !._properties_by_id = IndexById(properties.val)])
    ELSE IF exists(fs, attributes_path(path, v.id))
    THEN LET attributes == safe_load(fs, attributes_path(path, v.id))
         IN IF ~Returned(attributes) THEN attributes
            ELSE Return([v EXCEPT !.attributes = attributes.val])
    ELSE Return(v)

Step(result, next) ==
    /\ out' = result
    /\ batch' = next
    /\ UNCHANGED <<op, owner, rec, path, fs, probe, dead, exit>>

OpenFile ==
    /\ op \in BatchLoaders
    /\ out = Pending
    /\ batch = NoBatch
    /\ LET doc == safe_load(fs, path)
           none(items) == Return(<<>>)
       IN IF Returned(doc) /\ doc.val.ty = "list"
          THEN Step(out, Loop("from_dict", doc.val.items, 1, <<>>, <<>>, <<>>))
          ELSE Step(ExceptLowLevel(IF Returned(doc) THEN Iterate(doc.val, none) ELSE doc,
                                   LoaderMessage),
                    Loop("done", <<>>, 1, <<>>, <<>>, <<>>))

ConstructItem ==
    /\ out = Pending
    /\ batch.stage = "from_dict"
    /\ batch.k <= Len(batch.items)
    /\ LET v == ItemFactory(batch.items, batch.k)
           log == Append(batch.log, [ev |-> "from_dict", k |-> batch.k])
       IN IF ~Returned(v)
          THEN Step(ExceptLowLevel(v, LoaderMessage),
                    Loop("done", batch.items, batch.k, <<>>, batch.ret, log))
          ELSE IF HasSibling
          THEN Step(out, Loop("sibling", batch.items, batch.k, <<v.val>>, batch.ret, log))
          ELSE Step(out, Loop("from_dict", batch.items, batch.k + 1, <<>>,
                              Append(batch.ret, v.val), log))

LoadSibling ==
    /\ out = Pending
    /\ batch.stage = "sibling"
    /\ LET v == WithSibling(batch.v[1], batch.k)
           log == IF ReadsSibling(batch.v[1])
                  THEN Append(batch.log, [ev |-> "sibling", k |-> batch.k])
                  ELSE batch.log
       IN IF ~Returned(v)
          THEN Step(ExceptLowLevel(v, LoaderMessage),
                    Loop("done", batch.items, batch.k, <<>>, batch.ret, log))
          ELSE Step(out, Loop("from_dict", batch.items, batch.k + 1, <<>>,
                              Append(batch.ret, v.val), log))

ReturnList ==
    /\ out = Pending
    /\ batch.stage = "from_dict"
    /\ batch.k > Len(batch.items)
    /\ Step(Return(batch.ret),
            Loop("done", batch.items, batch.k, <<>>, batch.ret, batch.log))

(* The script run with the arguments argv: none, or one path.              *)
argv == IF path = NoPath THEN <<>> ELSE <<path>>

Run ==
    /\ op = "validate.run"
    /\ exit = NoExit
    /\ exit' = <<ExitStatus(run(fs, argv))>>
    /\ UNCHANGED <<op, owner, rec, path, fs, out, probe, dead, batch>>

(* Queries on the objects a call returned.  The step-by-step run of a      *)
(* loader returns what the call as a whole returns, so the queries follow  *)
(* the call as a whole.                                                    *)
Query(q, target, id, res) ==
    /\ Returned(out)
    /\ batch = NoBatch
    /\ probe = NoProbe
    /\ RefOf(target) \notin dead
    /\ probe' = [q |-> q, target |-> RefOf(target), id |-> id, res |-> res]
    /\ UNCHANGED <<op, owner, rec, path, fs, out, dead, exit, batch>>

(* The two lookups by id read the object's own table and no                *)
(* back-reference: they are made while nothing has been destroyed.         *)
ValueForId ==
    /\ dead = {}
    /\ \E e \in {o \in Heap : o.cls = "DictionaryEnumeration"}, i \in ProbeIds :
          Query("value_for_id", e, i, value_for_id(e, i))

PropertyById ==
    /\ dead = {}
    /\ \E e \in {o \in Heap : o.cls = "DictionaryEntity"}, i \in ProbeIds :
          Query("property_by_id", e, i, property_by_id(e, i))

DictionaryType ==
    \E p \in {o \in Heap : o.cls = "DictionaryProperty"} :
        Query("dictionary_type", p, p.id, dictionary_type(LiveHeap, p))

(* The caller lets go of an object while it keeps the objects obtained     *)
(* from it.  The object is destroyed once no list of a live object holds   *)
(* it: the back-references to it are proxies and do not count.             *)
Destroy ==
    /\ Returned(out)
    /\ batch = NoBatch
    /\ probe = NoProbe
    /\ Cardinality(dead) < MaxDestroyed
    /\ \E o \in LiveHeap :
          /\ o.cls \in ParentClasses
          /\ \A x \in LiveHeap : o \notin Owned(x)
          /\ dead' = dead \cup {RefOf(o)}
    /\ UNCHANGED <<op, owner, rec, path, fs, out, probe, exit, batch>>

(* child.<back-reference>.id                                               *)
UseBackReference ==
    \E c \in {o \in LiveHeap : o.cls \in ChildClasses} :
        Query("back_reference", c, c.id, Dereference(LiveHeap, BackReference(c)))

(* child.dictionary, where it is a derived property                        *)
DerivedDictionary ==
    \E c \in {o \in LiveHeap : o.cls \in {"DictionaryEnumerationValue",
                                           "DictionaryEnumeration",
                                           "DictionaryProperty"}} :
        Query("dictionary", c, c.id,
              CASE c.cls = "DictionaryEnumerationValue" -> Value_dictionary(LiveHeap, c)
                [] c.cls = "DictionaryEnumeration" -> Enumeration_dictionary(LiveHeap, c)
                [] c.cls = "DictionaryProperty" -> Property_dictionary(LiveHeap, c))

(* value.entity                                                            *)
DerivedEntity ==
    \E c \in {o \in LiveHeap : o.cls = "DictionaryEnumerationValue"} :
        Query("entity", c, c.id, Value_entity(LiveHeap, c))

Next ==
    \/ EnumerationValueFromDict
    \/ EnumerationFromDict
    \/ DataTypeFromDict
    \/ PropertyFromDict
    \/ EntityFromDict
    \/ DictionaryFromDict
    \/ EnumListFromYaml
    \/ DataTypeListFromYaml
    \/ PropertyListFromYaml
    \/ EntityListFromYaml
    \/ DictionaryFromYaml
    \/ OpenFile
    \/ ConstructItem
    \/ LoadSibling
    \/ ReturnList
    \/ Run
    \/ ValueForId
    \/ PropertyById
    \/ DictionaryType
    \/ Destroy
    \/ UseBackReference
    \/ DerivedDictionary
    \/ DerivedEntity

Spec == Init /\ [][Next]_vars

(***************************************************************************)
(* Properties.                                                             *)
(***************************************************************************)
Finished == out # Pending

FromDictOps ==
    {"DictionaryEnumerationValue.from_dict", "DictionaryEnumeration.from_dict",
     "DictionaryDataType.from_dict", "DictionaryProperty.from_dict",
     "DictionaryEntity.from_dict", "Dictionary.from_dict"}

(* The message ends with the words of path p.                              *)
CarriesPath(message, p) ==
    /\ Len(message) > Len(p)
    /\ SubSeq(message, Len(message) - Len(p) + 1, Len(message)) = p

Unreadable(files, p) == ~exists(files, p) \/ files[p].st = "invalid"

(* C1: every factory either returns an instance or raises a                *)
(* DictionaryLoadingError or a DictionaryValidationError; no other kind of *)
(* failure escapes, whatever keys the record lacks and whatever document   *)
(* the file holds.                                                         *)
C1_OnlyDictionaryErrorsEscape ==
    Finished => Returned(out) \/ (out.kind = "raise" /\ out.exc \in DictionaryErrors)

(* The files of a dictionary directory hold documents of the expected      *)
(* shape: a record in the root file, lists in the others.                  *)
ExpectedShapes ==
    /\ fs[DictionaryPath].st = "ok" => fs[DictionaryPath].doc.ty = "dict"
    /\ \A p \in DOMAIN fs \ {DictionaryPath} : fs[p].st = "ok" => fs[p].doc.ty # "NoneType"

(* C2 as stated: a failure at any stage of from_yaml_dictionary aborts     *)
(* with a DictionaryLoadingError that carries the path of a file of the    *)
(* directory (checked on directories whose documents have the expected     *)
(* shapes).                                                                *)
C2_EveryFailureIsLoadingErrorWithPath ==
    (op = "Dictionary.from_yaml_dictionary" /\ Finished /\ ExpectedShapes /\ ~Returned(out))
       => /\ Raised(out, "DictionaryLoadingError")
          /\ \E p \in DOMAIN fs : CarriesPath(out.message, p)

(* C2 amended: in from_yaml_dictionary,                                    *)
(*  - a root file, data-types.yaml or entities.yaml that cannot be read or *)
(*    parsed aborts the load, at its stage, with a DictionaryLoadingError  *)
(*    carrying that file's path; a nonexistent root path in particular;    *)
(*  - every error with a low-level cause is a DictionaryLoadingError that  *)
(*    carries the path of an unreadable file, or the path of               *)
(*    data-types.yaml when an attributes file is unreadable: OSError and   *)
(*    YAMLError never escape unwrapped;                                    *)
(*  - a root record that lacks id, name or version aborts with a           *)
(*    DictionaryLoadingError that carries no path, and a root record with  *)
(*    an invalid version aborts with a DictionaryValidationError.          *)
RootRecord == fs[DictionaryPath].doc.rec

RootLoads ==
    /\ fs[DictionaryPath].st = "ok"
    /\ fs[DictionaryPath].doc.ty = "dict"
    /\ Returned(Dictionary_from_dict(Ref("Dictionary", <<>>), RootRecord))

IsWrapped(o, p) ==
    /\ Raised(o, "DictionaryLoadingError")
    /\ o.cause \in LowLevel
    /\ CarriesPath(o.message, p)

C2_FailuresOfFromYamlDictionary ==
    (op = "Dictionary.from_yaml_dictionary" /\ Finished) =>
       /\ Unreadable(fs, DictionaryPath) => IsWrapped(out, DictionaryPath)
       /\ (RootLoads /\ Unreadable(fs, DataTypesPath)) => IsWrapped(out, DataTypesPath)
       /\ (RootLoads /\ Returned(from_yaml_data_type_list(fs, NoneRef, DataTypesPath))
             /\ Unreadable(fs, EntitiesPath)) => IsWrapped(out, EntitiesPath)
       /\ out.kind = "raise" => out.exc \notin LowLevel
       /\ (out.kind = "raise" /\ out.cause \in LowLevel) =>
             /\ Raised(out, "DictionaryLoadingError")
             /\ \E p \in DOMAIN fs :
                   /\ CarriesPath(out.message, p)
                   /\ \/ Unreadable(fs, p)
                      \/ /\ p = DataTypesPath
                         /\ \E q \in DOMAIN fs :
                               /\ Unreadable(fs, q)
                               /\ parent(q) = parent(p) \o <<"data-type-attributes">>
       /\ (fs[DictionaryPath].st = "ok" /\ fs[DictionaryPath].doc.ty = "dict") =>
             /\ (\E k \in {"id", "name", "version"} : k \notin DOMAIN RootRecord) =>
                   /\ Raised(out, "DictionaryLoadingError")
                   /\ out.cause = "None"
                   /\ \A p \in DOMAIN fs : ~CarriesPath(out.message, p)
             /\ ({"id", "name", "version"} \subseteq DOMAIN RootRecord
                   /\ RootRecord.version \notin {master, development}
                   /\ ~isvalid(RootRecord.version)) =>
                   Raised(out, "DictionaryValidationError")

(* A load that got through the root record and the data types and then     *)
(* failed on an unreadable entities.yaml.                                  *)
C2_Witness ==
    /\ op = "Dictionary.from_yaml_dictionary"
    /\ RootLoads
    /\ Returned(from_yaml_data_type_list(fs, NoneRef, DataTypesPath))
    /\ Unreadable(fs, EntitiesPath)
    /\ IsWrapped(out, EntitiesPath)

(***************************************************************************)
(* Required fields.                                                        *)
(***************************************************************************)
RequiredFields(kind) ==
    CASE kind = "DictionaryEnumerationValue.from_dict" -> <<"id", "integral_value">>
      [] kind = "DictionaryEnumeration.from_dict" -> <<"id", "name">>
      [] kind = "DictionaryDataType.from_dict" -> <<"id", "name">>
      [] kind = "DictionaryProperty.from_dict" -> <<"id", "name", "type">>
      [] kind = "DictionaryEntity.from_dict" -> <<"id", "name">>
      [] kind = "Dictionary.from_dict" -> <<"id", "name", "version">>

(* The field is absent from the record, or empty: an empty string, or for  *)
(* an integral_value None or the empty string.                             *)
IsMissing(d, k) ==
    \/ k \notin DOMAIN d
    \/ CASE k = "version" -> d[k] = <<>>
         [] k = "integral_value" -> d[k] \in {YNone, YStr(<<>>)}
         [] OTHER -> d[k] = ""

Lacks(kind, d) == \E i \in 1..Len(RequiredFields(kind)) : IsMissing(d, RequiredFields(kind)[i])

FirstMissing(kind, d) ==
    LET req == RequiredFields(kind)
        i == CHOOSE i \in 1..Len(req) :
                 IsMissing(d, req[i]) /\ \A j \in 1..(i - 1) : ~IsMissing(d, req[j])
    IN req[i]

(* A DictionaryLoadingError whose message names the field as its second    *)
(* word ("Missing <field> in ...", "Invalid <field> in ...").              *)
NamesField(o, k) ==
    /\ Raised(o, "DictionaryLoadingError")
    /\ Len(o.message) >= 2
    /\ o.message[2] = k

(* The record has every required field, and its integral_value, if it is  *)
(* to have one, converts to an integer.                                    *)
WellFormed(kind, d) ==
    /\ ~Lacks(kind, d)
    /\ kind = "DictionaryEnumerationValue.from_dict" => PyInt(d.integral_value).ok

(* The first record of the list that lacks a required field, when the      *)
(* records before it are well formed; 0 when there is none.                *)
FirstLacking(kind, ds) ==
    IF \E i \in 1..Len(ds) :
          Lacks(kind, ds[i]) /\ \A j \in 1..(i - 1) : WellFormed(kind, ds[j])
    THEN CHOOSE i \in 1..Len(ds) :
            Lacks(kind, ds[i]) /\ \A j \in 1..(i - 1) : WellFormed(kind, ds[j])
    ELSE 0

NestedKey == [e \in {"DictionaryEnumeration.from_dict"} |-> "values"]
               @@ [e \in {"DictionaryEntity.from_dict"} |-> "properties"]

NestedKind == [e \in {"DictionaryEnumeration.from_dict"} |->
                   "DictionaryEnumerationValue.from_dict"]
                @@ [e \in {"DictionaryEntity.from_dict"} |-> "DictionaryProperty.from_dict"]

(* C3: a record of any kind in which a required field is absent or empty   *)
(* makes loading raise a DictionaryLoadingError whose message names the    *)
(* missing field (the first one missing, in the order id, name, then type, *)
(* version or integral_value): for the record handed to from_dict, for the *)
(* first deficient value or inline property nested in an otherwise         *)
(* complete enumeration or entity record, for the first deficient record   *)
(* of a property file (the records before it being well formed), and for   *)
(* the root record of a dictionary directory.                              *)
C3_MissingRequiredFieldIsNamed ==
    /\ (op \in FromDictOps /\ Finished /\ Lacks(op, rec))
          => NamesField(out, FirstMissing(op, rec))
    /\ (op \in DOMAIN NestedKey /\ Finished /\ ~Lacks(op, rec)
          /\ NestedKey[op] \in DOMAIN rec
          /\ FirstLacking(NestedKind[op], rec[NestedKey[op]]) # 0)
          => LET ds == rec[NestedKey[op]]
                 i == FirstLacking(NestedKind[op], ds)
             IN NamesField(out, FirstMissing(NestedKind[op], ds[i]))
    /\ (op = "DictionaryProperty.from_yaml_property_list" /\ Finished
          /\ fs[path].st = "ok" /\ fs[path].doc.ty = "list"
          /\ FirstLacking("DictionaryProperty.from_dict", fs[path].doc.items) # 0)
          => LET ds == fs[path].doc.items
                 i == FirstLacking("DictionaryProperty.from_dict", ds)
             IN NamesField(out, FirstMissing("DictionaryProperty.from_dict", ds[i]))
    /\ (op = "Dictionary.from_yaml_dictionary" /\ Finished
          /\ fs[path].st = "ok" /\ fs[path].doc.ty = "dict"
          /\ Lacks("Dictionary.from_dict", fs[path].doc.rec))
          => NamesField(out, FirstMissing("Dictionary.from_dict", fs[path].doc.rec))

(* A property record that has an id and a name and no type was rejected.   *)
C3_Witness ==
    /\ op = "DictionaryProperty.from_dict"
    /\ {"id", "name"} \subseteq DOMAIN rec
    /\ rec.id # ""
    /\ rec.name # ""
    /\ "type" \notin DOMAIN rec
    /\ NamesField(out, "type")

(***************************************************************************)
(* Duplicates within an enumeration record.                                *)
(***************************************************************************)
(* The record reaches the uniqueness checks: it has an id, a name and a    *)
(* list of values, each of which has an id and a convertible               *)
(* integral_value.                                                         *)
ValuesParse(d) ==
    /\ ~Lacks("DictionaryEnumeration.from_dict", d)
    /\ "values" \in DOMAIN d
    /\ \A i \in 1..Len(d.values) :
          WellFormed("DictionaryEnumerationValue.from_dict", d.values[i])

SharedValueId(d) ==
    \E i, j \in 1..Len(d.values) : i # j /\ d.values[i].id = d.values[j].id

SharedIntegral(d) ==
    \E i, j \in 1..Len(d.values) :
        /\ i # j
        /\ PyInt(d.values[i].integral_value).n = PyInt(d.values[j].integral_value).n

Loadable(d) == ValuesParse(d) /\ ~SharedValueId(d) /\ ~SharedIntegral(d)

EnumerationOps ==
    {"DictionaryEnumeration.from_dict", "DictionaryEnumeration.from_yaml_enum_list"}

(* The enumeration record the call fails on, if any: the record given to   *)
(* from_dict, or the first record of the file that is not loadable.        *)
Offending ==
    IF op = "DictionaryEnumeration.from_dict" THEN <<rec>>
    ELSE IF fs[path].st = "ok" /\ fs[path].doc.ty = "list"
    THEN LET ds == fs[path].doc.items
             bad == {i \in 1..Len(ds) :
                        ~Loadable(ds[i]) /\ \A j \in 1..(i - 1) : Loadable(ds[j])}
         IN IF bad = {} THEN <<>> ELSE <<ds[CHOOSE i \in bad : TRUE]>>
    ELSE <<>>

(* C4: an enumeration record in which at least two values share an id is   *)
(* rejected with a DictionaryValidationError ("Duplicate value ids in      *)
(* enumeration <id>"), by from_dict and by the file loader at the first    *)
(* such record; the check runs once the record's id and name are present   *)
(* and all its values have parsed.                                         *)
C4_DuplicateValueIdsRejected ==
    (op \in EnumerationOps /\ Finished /\ Offending # <<>>
       /\ ValuesParse(Offending[1]) /\ SharedValueId(Offending[1]))
       => /\ Raised(out, "DictionaryValidationError")
          /\ out.message = <<"Duplicate", "value", "ids", "in", "enumeration",
                             Offending[1].id>>

C4_Witness ==
    /\ op = "DictionaryEnumeration.from_dict"
    /\ ValuesParse(rec)
    /\ SharedValueId(rec)
    /\ ~SharedIntegral(rec)
    /\ Raised(out, "DictionaryValidationError")

(* C5: an enumeration record in which at least two values have             *)
(* integral_values that convert to the same integer is rejected with a     *)
(* DictionaryValidationError (once id and name are present and all values  *)
(* have parsed), and every enumeration that is returned has pairwise       *)
(* distinct value ids and pairwise distinct integral values.               *)
C5_DuplicateIntegralsRejected ==
    /\ (op \in EnumerationOps /\ Finished /\ Offending # <<>>
          /\ ValuesParse(Offending[1]) /\ SharedIntegral(Offending[1]))
          => /\ Raised(out, "DictionaryValidationError")
             /\ ~SharedValueId(Offending[1]) =>
                   out.message = <<"Duplicate", "integral", "values", "in",
                                   "enumeration", Offending[1].id>>
    /\ (op \in EnumerationOps /\ Returned(out)) =>
          \A e \in {o \in Heap : o.cls = "DictionaryEnumeration"} :
             \A i, j \in 1..Len(e.values) :
                i # j => /\ e.values[i].id # e.values[j].id
                         /\ e.values[i].integral_value # e.values[j].integral_value

(* Two values with distinct ids whose integral_values, different as        *)
(* written, convert to the same integer.                                   *)
C5_Witness ==
    /\ op = "DictionaryEnumeration.from_dict"
    /\ ValuesParse(rec)
    /\ ~SharedValueId(rec)
    /\ \E i, j \in 1..Len(rec.values) :
          /\ rec.values[i].integral_value # rec.values[j].integral_value
          /\ PyInt(rec.values[i].integral_value).n = PyInt(rec.values[j].integral_value).n
    /\ Raised(out, "DictionaryValidationError")

(***************************************************************************)
(* Entities and their property files.                                      *)
(***************************************************************************)
EntityOps == {"DictionaryEntity.from_yaml_entity_list", "Dictionary.from_yaml_dictionary"}

(* The entity loader is reached: at once, or after the root record and the *)
(* data types of a dictionary directory have loaded.                       *)
EntitiesReached ==
    \/ op = "DictionaryEntity.from_yaml_entity_list"
    \/ /\ op = "Dictionary.from_yaml_dictionary"
       /\ RootLoads
       /\ Returned(from_yaml_data_type_list(fs, NoneRef, DataTypesPath))

EntitiesListed == fs[EntitiesPath].st = "ok" /\ fs[EntitiesPath].doc.ty = "list"

ListedEntities == fs[EntitiesPath].doc.items

LoadedEntities ==
    IF op = "Dictionary.from_yaml_dictionary" THEN out.val.entities[1] ELSE out.val

SiblingOf(id) == properties_path(EntitiesPath, id)

(* The entity record parses: id and name present, inline properties, if    *)
(* any, complete.                                                          *)
EntityParses(d) ==
    /\ ~Lacks("DictionaryEntity.from_dict", d)
    /\ "properties" \in DOMAIN d =>
          \A j \in 1..Len(d.properties) : ~Lacks("DictionaryProperty.from_dict", d.properties[j])

SiblingLoads(d) ==
    /\ exists(fs, SiblingOf(d.id))
    /\ fs[SiblingOf(d.id)].st = "ok"
    /\ fs[SiblingOf(d.id)].doc.ty = "list"
    /\ \A j \in 1..Len(fs[SiblingOf(d.id)].doc.items) :
          ~Lacks("DictionaryProperty.from_dict", fs[SiblingOf(d.id)].doc.items[j])

(* The property object was built from the property record.                 *)
BuiltFrom(prop, d) == prop.id = d.id /\ prop.name = d.name /\ prop.type_id = d.type

(* C6: in the entity batch loader the properties of an entity come only    *)
(* from its sibling file properties-by-entity/<id>.yaml.  After a          *)
(* successful load each entity's `properties` are the records of that file *)
(* in file order, and its lookup table holds exactly the ids of those      *)
(* properties, each mapped to the last property of the file with that id.  *)
(* When the sibling file of a listed entity is absent the load does not    *)
(* succeed, and the first entity whose file is absent (the entities before *)
(* it having loaded) fails the load with the DictionaryLoadingError of the *)
(* property loader, which carries the path of the absent file.             *)
C6_PropertiesComeFromSiblingFile ==
    /\ (op \in EntityOps /\ Returned(out)) =>
          /\ Len(LoadedEntities) = Len(ListedEntities)
          /\ \A i \in 1..Len(LoadedEntities) :
                LET e == LoadedEntities[i]
                    file == fs[SiblingOf(ListedEntities[i].id)]
                IN /\ e.id = ListedEntities[i].id
                   /\ file.st = "ok"
                   /\ Len(e.properties) = Len(file.doc.items)
                   /\ \A j \in 1..Len(e.properties) :
                         BuiltFrom(e.properties[j], file.doc.items[j])
                   /\ DOMAIN e._properties_by_id =
                         {file.doc.items[j].id : j \in 1..Len(file.doc.items)}
                   /\ \A k \in DOMAIN e._properties_by_id :
                         \E j \in 1..Len(e.properties) :
                            /\ e._properties_by_id[k] = RefOf(e.properties[j])
                            /\ e.properties[j].id = k
                            /\ \A l \in (j + 1)..Len(e.properties) : e.properties[l].id # k
    /\ (op \in EntityOps /\ Finished /\ EntitiesListed) =>
          \A i \in 1..Len(ListedEntities) :
             (/\ ~IsMissing(ListedEntities[i], "id")
              /\ ~exists(fs, SiblingOf(ListedEntities[i].id))) => ~Returned(out)
    /\ (EntitiesReached /\ Finished /\ EntitiesListed) =>
          \A i \in 1..Len(ListedEntities) :
             (/\ EntityParses(ListedEntities[i])
              /\ ~exists(fs, SiblingOf(ListedEntities[i].id))
              /\ \A j \in 1..(i - 1) :
                    EntityParses(ListedEntities[j]) /\ SiblingLoads(ListedEntities[j]))
                => out = DictionaryLoadingError(
                            <<"Error", "reading", "property", "list", "file:">>
                               \o SiblingOf(ListedEntities[i].id),
                            "OSError")

(* An entity was loaded whose record carries inline properties and whose   *)
(* properties are those of its sibling file, not the inline ones.          *)
C6_Witness ==
    /\ op = "DictionaryEntity.from_yaml_entity_list"
    /\ Returned(out)
    /\ \E i \in 1..Len(out.val) :
          /\ "properties" \in DOMAIN ListedEntities[i]
          /\ ListedEntities[i].properties # <<>>
          /\ out.val[i].properties # <<>>
          /\ \A j \in 1..Len(out.val[i].properties) :
                out.val[i].properties[j].id # ListedEntities[i].properties[1].id
          /\ ListedEntities[i].properties[1].id \notin DOMAIN out.val[i]._properties_by_id

(* The directory with the inline `properties` key removed from every       *)
(* entity record.                                                          *)
WithoutInline(files) ==
    [files EXCEPT ![EntitiesPath] =
        FileOk(DocList(
            [i \in 1..Len(files[EntitiesPath].doc.items) |->
                [k \in DOMAIN files[EntitiesPath].doc.items[i] \ {"properties"} |->
                    files[EntitiesPath].doc.items[i][k]]]))]

(* C7: when the sibling property file of every listed entity exists, the   *)
(* outcome of the entity batch loader does not depend on the inline        *)
(* `properties` of the entity records: it is the outcome of the load of    *)
(* the same directory with the inline properties removed.                  *)
C7_InlinePropertiesIgnored ==
    (op = "DictionaryEntity.from_yaml_entity_list" /\ Finished /\ EntitiesListed
       /\ \A i \in 1..Len(ListedEntities) :
             ~IsMissing(ListedEntities[i], "id") => exists(fs, SiblingOf(ListedEntities[i].id)))
       => out = from_yaml_entity_list(WithoutInline(fs), RefOf(owner), path)

(***************************************************************************)
(* Lookups.                                                                *)
(***************************************************************************)
Probed == Deref(Heap, probe.target)

(* C8: dictionary_type of a property of a dictionary loaded by             *)
(* from_yaml_dictionary returns the DataType of that dictionary whose id   *)
(* is the property's type_id; it returns None when the property has no     *)
(* owning entity or its entity has no owning dictionary.                   *)
C8_DictionaryTypeResolves ==
    probe.q = "dictionary_type" =>
       /\ Probed.entity = NoneRef => probe.res = Return(NoneRef)
       /\ (Probed.entity # NoneRef /\ Deref(Heap, Probed.entity).cls = "DictionaryEntity"
             /\ Deref(Heap, Probed.entity).dictionary = NoneRef)
             => probe.res = Return(NoneRef)
       /\ op = "Dictionary.from_yaml_dictionary" =>
             /\ Returned(probe.res)
             /\ \A t \in {o \in Heap : o.cls = "DictionaryDataType"} :
                   t.id = Probed.type_id =>
                      /\ probe.res.val # NoneRef
                      /\ Deref(Heap, probe.res.val).cls = "DictionaryDataType"
                      /\ Deref(Heap, probe.res.val).id = Probed.type_id

(* C9: value_for_id(i) returns the value of the enumeration whose id is i  *)
(* when the enumeration has one and raises KeyError for any other id;      *)
(* property_by_id(i) returns the property of the entity whose id is i when *)
(* the entity has one and returns None, without raising, for any other id. *)
C9_LookupAsymmetry ==
    /\ probe.q = "value_for_id" =>
          IF \E i \in 1..Len(Probed.values) : Probed.values[i].id = probe.id
          THEN /\ Returned(probe.res)
               /\ \E i \in 1..Len(Probed.values) :
                     /\ probe.res.val = RefOf(Probed.values[i])
                     /\ Probed.values[i].id = probe.id
          ELSE Raised(probe.res, "KeyError")
    /\ probe.q = "property_by_id" =>
          /\ Returned(probe.res)
          /\ IF \E i \in 1..Len(Probed.properties) : Probed.properties[i].id = probe.id
             THEN \E i \in 1..Len(Probed.properties) :
                     /\ probe.res.val = RefOf(Probed.properties[i])
                     /\ Probed.properties[i].id = probe.id
             ELSE probe.res.val = NoneRef

(* An enumeration with values was asked for an id it does not have.        *)
C9_Witness ==
    /\ probe.q = "value_for_id"
    /\ op = "DictionaryEnumeration.from_dict"
    /\ Probed.values # <<>>
    /\ \A i \in 1..Len(Probed.values) : Probed.values[i].id # probe.id
    /\ Raised(probe.res, "KeyError")

(* C10: Dictionary.from_dict, given a record with an id, a name and a      *)
(* version, returns a Dictionary if and only if the version is "master",   *)
(* "development" or a valid semantic version, and raises for every other   *)
(* version a DictionaryValidationError whose message names the version and *)
(* the dictionary id; "master", "development" and "0.0.1" are accepted and *)
(* "not-a-version" is rejected.  No record without such a version is       *)
(* accepted.                                                               *)
NotAVersion == <<"n", "o", "t", "-", "a", "-", "v", "e", "r", "s", "i", "o", "n">>

Accepted(v) == v \in {master, development} \/ isvalid(v)

C10_VersionAccepted ==
    (op = "Dictionary.from_dict" /\ Finished) =>
       /\ Returned(out) => "version" \in DOMAIN rec /\ Accepted(rec.version)
       /\ ~Lacks(op, rec) =>
             /\ Returned(out) <=> Accepted(rec.version)
             /\ ~Accepted(rec.version) =>
                   /\ Raised(out, "DictionaryValidationError")
                   /\ out.message =
                         <<"Version">> \o rec.version
                            \o <<"in", "dictionary", rec.id, "is", "invalid">>
             /\ rec.version \in {master, development, <<"0", ".", "0", ".", "1">>}
                   => Returned(out) /\ out.val.version = rec.version
             /\ rec.version = NotAVersion => Raised(out, "DictionaryValidationError")

C10_Witness ==
    /\ op = "Dictionary.from_dict"
    /\ ~Lacks(op, rec)
    /\ rec.version = NotAVersion
    /\ Raised(out, "DictionaryValidationError")

(***************************************************************************)
(* Data-type attribute overrides.                                          *)
(***************************************************************************)
DataTypeOps ==
    {"DictionaryDataType.from_yaml_data_type_list", "Dictionary.from_yaml_dictionary"}

ListedDataTypes == fs[DataTypesPath].doc.items

LoadedDataTypes ==
    IF op = "Dictionary.from_yaml_dictionary" THEN out.val.data_types[1] ELSE out.val

AttributesFileOf(d) == attributes_path(DataTypesPath, d.id)

DataTypeParses(d) ==
    Returned(DictionaryDataType_from_dict(Ref("DictionaryDataType", <<1>>), NoneRef, d))

(* C11: in from_yaml_data_type_list, a loaded data type whose file         *)
(* data-type-attributes/<id>.yaml exists has exactly that file's contents  *)
(* as attributes (inline attributes are replaced, not merged); one whose   *)
(* file does not exist has its inline attributes, the empty map when none  *)
(* are given; and a list of well-formed records none of whose attribute    *)
(* files is unreadable loads, whichever of these files are absent.         *)
C11_AttributesOverride ==
    (op \in DataTypeOps /\ Finished) =>
       /\ Returned(out) =>
             /\ Len(LoadedDataTypes) = Len(ListedDataTypes)
             /\ \A i \in 1..Len(ListedDataTypes) :
                   LET d == ListedDataTypes[i]
                       t == LoadedDataTypes[i]
                   IN /\ t.id = d.id
                      /\ exists(fs, AttributesFileOf(d)) =>
                            t.attributes = fs[AttributesFileOf(d)].doc
                      /\ ~exists(fs, AttributesFileOf(d)) =>
                            t.attributes = IF "attributes" \in DOMAIN d
                                           THEN d.attributes ELSE DocMap({})
       /\ (/\ op = "DictionaryDataType.from_yaml_data_type_list"
           /\ fs[DataTypesPath].st = "ok"
           /\ fs[DataTypesPath].doc.ty = "list"
           /\ \A i \in 1..Len(ListedDataTypes) :
                 /\ DataTypeParses(ListedDataTypes[i])
                 /\ \/ ~exists(fs, AttributesFileOf(ListedDataTypes[i]))
                    \/ fs[AttributesFileOf(ListedDataTypes[i])].st = "ok")
             => Returned(out)

(* A load of two data types: one gives inline attributes and has an        *)
(* override file, the other has no file.                                   *)
C11_Witness ==
    /\ op = "DictionaryDataType.from_yaml_data_type_list"
    /\ Returned(out)
    /\ \E i, j \in 1..Len(LoadedDataTypes) :
          /\ "attributes" \in DOMAIN ListedDataTypes[i]
          /\ exists(fs, AttributesFileOf(ListedDataTypes[i]))
          /\ LoadedDataTypes[i].attributes = OverrideAttributes
          /\ LoadedDataTypes[i].attributes # ListedDataTypes[i].attributes
          /\ ~exists(fs, AttributesFileOf(ListedDataTypes[j]))
          /\ LoadedDataTypes[j].attributes = DocMap({})

(***************************************************************************)
(* Back-references.                                                        *)
(***************************************************************************)
(* The parent of an object: the object whose list holds it, or, for an     *)
(* object handed back by a factory, the parent the factory was given.      *)
ParentOf(c) ==
    IF \E x \in Heap : c \in Owned(x)
    THEN RefOf(CHOOSE x \in Heap : c \in Owned(x))
    ELSE RefOf(owner)

BackReferring ==
    {"DictionaryEnumerationValue", "DictionaryEnumeration", "DictionaryProperty",
     "DictionaryEntity"}

(* C12: once the parent of an enumeration value, enumeration, property or  *)
(* entity has been destroyed, dereferencing the child's back-reference, or *)
(* reading its derived `dictionary` or `entity`, raises an error and       *)
(* returns no value.                                                       *)
C12_StaleBackReferenceFails ==
    (probe.q \in {"back_reference", "dictionary", "entity"}
        /\ Probed.cls \in BackReferring
        /\ ParentOf(Probed) \in dead)
       => probe.res.kind = "raise"

(* The same for the children whose back-reference does refer to their      *)
(* parent.                                                                 *)
StaleWhenWired ==
    (probe.q \in {"back_reference", "dictionary", "entity"}
        /\ Probed.cls \in BackReferring
        /\ ParentOf(Probed) \in dead
        /\ BackReference(Probed) = ParentOf(Probed))
       => probe.res = ReferenceError

(* C13: every property in the properties of an entity produced with an     *)
(* owning dictionary refers back to that entity, whether it was parsed     *)
(* from the inline list or from the sibling file, and its `dictionary`     *)
(* resolves to the entity's dictionary.                                    *)
C13_PropertiesReferToTheirEntity ==
    \A e \in {o \in Heap : o.cls = "DictionaryEntity"} :
       e.dictionary # NoneRef =>
          \A i \in 1..Len(e.properties) :
             /\ e.properties[i].entity = RefOf(e)
             /\ Property_dictionary(Heap, e.properties[i]) = Return(e.dictionary)

(* The same for the entities of the batch loader alone.                    *)
PropertiesFromFileReferToTheirEntity ==
    op \in {"DictionaryEntity.from_yaml_entity_list", "Dictionary.from_yaml_dictionary"}
       => C13_PropertiesReferToTheirEntity

(***************************************************************************)
(* The command line.                                                       *)
(***************************************************************************)
Exited == exit # NoExit

Loaded == from_yaml_dictionary(fs, path)

(* C14: run with one path argument, the process exits with status zero if   *)
(* the dictionary loads and validate() returns no error, and with a        *)
(* non-zero status if the dictionary fails to load or validate() returns   *)
(* an error.                                                               *)
C14_ExitStatus ==
    (Exited /\ path # NoPath) =>
       (exit[1] = 0 <=> (Returned(Loaded) /\ validate(Loaded.val) = <<>>))

(* The status main returns is the one the claim describes.                 *)
MainStatus ==
    (Exited /\ path # NoPath /\ Returned(main(fs, argv))) =>
       (main(fs, argv).val = 0 <=> (Returned(Loaded) /\ validate(Loaded.val) = <<>>))

(***************************************************************************)
(* Error propagation in the batch loaders.                                 *)
(***************************************************************************)
(* The records a file lists, none when it holds no list.                   *)
ItemsOf(p) ==
    IF exists(fs, p) /\ fs[p].st = "ok" /\ fs[p].doc.ty = "list"
    THEN fs[p].doc.items ELSE <<>>

(* What the per-record factories raise on the records of the files read.   *)
FactoryErrors ==
    LET listed == Range(ItemsOf(path))
        nested == UNION {Range(ItemsOf(q)) : q \in DOMAIN fs \ {path}}
        results ==
            CASE op = "DictionaryEnumeration.from_yaml_enum_list" ->
                    {DictionaryEnumeration_from_dict(
                         Ref("DictionaryEnumeration", <<1>>), RefOf(owner), d) : d \in listed}
              [] op = "DictionaryDataType.from_yaml_data_type_list" ->
                    {DictionaryDataType_from_dict(
                         Ref("DictionaryDataType", <<1>>), RefOf(owner), d) : d \in listed}
              [] op = "DictionaryProperty.from_yaml_property_list" ->
                    {DictionaryProperty_from_dict(
                         Ref("DictionaryProperty", <<1>>), RefOf(owner), d) : d \in listed}
              [] op = "DictionaryEntity.from_yaml_entity_list" ->
                    {DictionaryEntity_from_dict(
                         Ref("DictionaryEntity", <<1>>), RefOf(owner), d) : d \in listed}
                    \cup {DictionaryProperty_from_dict(
                              Ref("DictionaryProperty", <<1>>), NoneRef, d) : d \in nested}
    IN {o \in results : ~Returned(o)}

(* C15: an error that leaves a batch loader is either a                    *)
(* DictionaryLoadingError that wraps a low-level failure and carries the   *)
(* path of the file whose read or parse failed, or the error a per-record  *)
(* factory raised, unchanged.                                              *)
C15_BatchLoaderErrors ==
    (op \in BatchLoaders /\ Finished /\ ~Returned(out)) =>
       \/ \E q \in DOMAIN fs : Unreadable(fs, q) /\ IsWrapped(out, q)
       \/ out \in FactoryErrors

(* The same, where every file read holds a list and no attributes file is  *)
(* unreadable.                                                             *)
BatchLoaderErrorsOnLists ==
    (op \in BatchLoaders /\ Finished /\ ~Returned(out)
        /\ (\A q \in DOMAIN fs : fs[q].st = "ok" => fs[q].doc.ty # "NoneType")
        /\ (op = "DictionaryDataType.from_yaml_data_type_list" =>
               \A q \in DOMAIN fs \ {path} : fs[q].st # "invalid")) =>
       \/ \E q \in DOMAIN fs : Unreadable(fs, q) /\ IsWrapped(out, q)
       \/ out \in FactoryErrors

(***************************************************************************)
(* Order of a batch load.                                                  *)
(***************************************************************************)
(* What the loader of the running operation returns or raises as a whole.  *)
WholeLoad ==
    CASE op = "DictionaryEnumeration.from_yaml_enum_list" ->
            from_yaml_enum_list(fs, RefOf(owner), path)
      [] op = "DictionaryDataType.from_yaml_data_type_list" ->
            from_yaml_data_type_list(fs, RefOf(owner), path)
      [] op = "DictionaryProperty.from_yaml_property_list" ->
            from_yaml_property_list(fs, <<>>, RefOf(owner), path)
      [] op = "DictionaryEntity.from_yaml_entity_list" ->
            from_yaml_entity_list(fs, RefOf(owner), path)

(* The loop ends as the loader as a whole does.                            *)
LoopAgreesWithWholeLoad ==
    (op \in BatchLoaders /\ Finished) => out = WholeLoad

(* The k-th record of the file, in file order, fully processed: built by   *)
(* its factory and, where the loader has sibling files, completed from its *)
(* sibling file.                                                           *)
Processed(k) ==
    LET d == ItemsOf(path)[k]
        v == CASE op = "DictionaryEnumeration.from_yaml_enum_list" ->
                     DictionaryEnumeration_from_dict(
                         Ref("DictionaryEnumeration", <<k>>), RefOf(owner), d)
               [] op = "DictionaryDataType.from_yaml_data_type_list" ->
                     DictionaryDataType_from_dict(
                         Ref("DictionaryDataType", <<k>>), RefOf(owner), d)
               [] op = "DictionaryProperty.from_yaml_property_list" ->
                     DictionaryProperty_from_dict(
                         Ref("DictionaryProperty", <<k>>), RefOf(owner), d)
               [] op = "DictionaryEntity.from_yaml_entity_list" ->
                     DictionaryEntity_from_dict(
                         Ref("DictionaryEntity", <<k>>), RefOf(owner), d)
    IN IF ~Returned(v) \/ ~HasSibling THEN v ELSE WithSibling(v.val, k)

Offenders == {k \in 1..Len(ItemsOf(path)) : ~Returned(Processed(k))}

FirstOffender == CHOOSE k \in Offenders : \A j \in Offenders : k <= j

Before(e, f) ==
    \/ e.k < f.k
    \/ e.k = f.k /\ e.ev = "from_dict" /\ f.ev = "sibling"

(* C16: within one batch load the records are taken in file order: the     *)
(* steps done so far are ordered by record, the factory of a record before *)
(* its sibling file; when record k+1 is built, records 1..k have been      *)
(* fully processed, sibling files included, and appended in that order;    *)
(* and when several records are invalid the error raised is the one of the *)
(* first offending record of the file.                                     *)
C16_FileOrder ==
    /\ (op \in BatchLoaders /\ Finished /\ Offenders # {}) =>
          out = ExceptLowLevel(Processed(FirstOffender), LoaderMessage)
    /\ (op \in BatchLoaders /\ batch # NoBatch) =>
       /\ \A i, j \in 1..Len(batch.log) : i < j => Before(batch.log[i], batch.log[j])
       /\ \A j \in 1..Len(batch.log) :
             batch.log[j].ev = "from_dict" =>
                /\ batch.log[j].k <= Len(batch.ret) + 1
                /\ \A k \in 1..(batch.log[j].k - 1) :
                      /\ Returned(Processed(k))
                      /\ batch.ret[k] = Processed(k).val
                      /\ \E i \in 1..(j - 1) :
                            batch.log[i] = [ev |-> "from_dict", k |-> k]
                      /\ (HasSibling /\ ReadsSibling(batch.ret[k])) =>
                            \E i \in 1..(j - 1) :
                               batch.log[i] = [ev |-> "sibling", k |-> k]
       /\ (Finished /\ batch.items # <<>> /\ Offenders # {}) =>
             \A e \in Range(batch.log) : e.k <= FirstOffender
       /\ (Finished /\ batch.items # <<>> /\ Offenders = {}) =>
             /\ Returned(out)
             /\ out.val = [k \in 1..Len(batch.items) |-> Processed(k).val]

(* A load of two records that are both invalid, in different ways: the     *)
(* first is built and fails on its sibling file, the second is never       *)
(* built.                                                                  *)
C16_Witness ==
    /\ op \in BatchLoaders
    /\ batch # NoBatch
    /\ Finished
    /\ Len(batch.items) = 2
    /\ Offenders = {1, 2}
    /\ Processed(1) # Processed(2)
    /\ batch.log = <<[ev |-> "from_dict", k |-> 1], [ev |-> "sibling", k |-> 1]>>
    /\ out = ExceptLowLevel(Processed(1), LoaderMessage)

(* A load in which the second record is built after the first has been     *)
(* completed from its sibling file.                                        *)
SecondAfterFirst ==
    /\ op = "DictionaryEntity.from_yaml_entity_list"
    /\ batch # NoBatch
    /\ Len(batch.log) = 3
    /\ batch.log[3] = [ev |-> "from_dict", k |-> 2]
    /\ ~Returned(out)
    /\ out # Pending

====
